---- MODULE Spec2Model ----
(***************************************************************************)
(* Model of mlink-sdk:                                                     *)
(*   useExecuteMlink (src/src/react/useExecuteMlink.ts),                   *)
(*   useMlink        (src/src/react/themes.ts, lines 109-219),             *)
(*   createAction and the server adapters (builders, adapters/express.ts,  *)
(*   the Next adapter), the pure functions of validators, builders and     *)
(*   utils, and the parameter form of the Mlink component.                 *)
(* Every await of the async functions is a suspension point; the code      *)
(* between two awaits is one atomic action.                                *)
(***************************************************************************)
EXTENDS Integers, Sequences, FiniteSets, TLC

\* ---------------------------------------------------------------- bounds
MaxExecutes == 2
MaxFetches == 3

\* ---------------------------------------------------------------- values
Null == "<null>"
None == <<>>
Some(x) == <<x>>

\* EVMTransaction descriptors (src/src/types.ts). "0xa1", "0xb2" and "0xc3"
\* stand for 40-digit addresses; TxBad has a `to` that is not an address.
Addresses == {"0xa1",
              "0xb2"}
HexStrings == {"0x", "0xa9059cbb"}
TxA == [to |-> "0xa1", value |-> "0",
        data |-> "0x", chainId |-> 5000]
TxB == [to |-> "0xb2", value |-> "1",
        data |-> "0xa9059cbb", chainId |-> 5000]
TxBad == [to |-> "not-an-address", value |-> "0", data |-> "0x", chainId |-> 5000]

\* Response bodies of a 2xx POST: `transaction` is None or Some(tx),
\* `transactions` is None or Some(list).
ResponseBodies ==
  { [transaction |-> None,      transactions |-> None],
    [transaction |-> Some(TxA), transactions |-> None],
    [transaction |-> None,      transactions |-> Some(<<TxA, TxB>>)],
    [transaction |-> Some(TxB), transactions |-> Some(<<TxA>>)],
    [transaction |-> Some(TxA), transactions |-> Some(<<>>)],
    [transaction |-> None,      transactions |-> Some(<<TxBad>>)] }

\* Values a rejected promise can carry: an Error instance or any other value.
Thrown == { [isError |-> TRUE,  message |-> "User rejected the request"],
            [isError |-> FALSE, message |-> "User rejected the request"] }

\* What a rejected connect() carries.
ConnectFailures == { [isError |-> TRUE, message |-> "Failed to connect wallet"] }

\* The hash the wallet returns for a broadcast descriptor.
HashOf(tx) == IF tx = TxA THEN "0xhashA" ELSE IF tx = TxB THEN "0xhashB" ELSE "0xhashX"

\* The action string the caller passes to its e-th call of execute: a legacy
\* button value or a resolved href.
ActionArg(e) == IF e % 2 = 1 THEN "buy" ELSE "/api/swap?amount=1"

\* Bodies of a non-2xx POST, as response.json() yields them.
ErrorBodies ==
  { [kind |-> "unparseable", errorMessage |-> Null, message |-> Null],
    [kind |-> "object", errorMessage |-> Null, message |-> Null],
    [kind |-> "object", errorMessage |-> "Invalid Ethereum address", message |-> Null],
    [kind |-> "object", errorMessage |-> Null, message |-> "legacy message"],
    [kind |-> "object", errorMessage |-> "", message |-> Null],
    [kind |-> "object", errorMessage |-> "Invalid Ethereum address", message |-> "legacy message"],
    [kind |-> "null", errorMessage |-> Null, message |-> Null] }

HttpFailures == { [status |-> 500, statusText |-> "Internal Server Error"] }

VARIABLES
  status,        \* useExecuteMlink: useState<MlinkStatus>('ready')
  txHash,        \* useExecuteMlink: useState<string | null>(null)
  error,         \* useExecuteMlink: useState<string | null>(null)
  execs,         \* one record per call of execute
  wallet,        \* what adapter.isConnected() / adapter.getAddress() answer
  mStatus,       \* useMlink: useState<MlinkStatus>('idle')
  metadata,      \* useMlink: useState<ActionMetadata | null>(null)
  mError,        \* useMlink: useState<string | null>(null)
  abortControllerRef, \* useMlink: the fetch whose controller the ref holds, 0 for null
  intervalRef,   \* useMlink: TRUE while the refresh interval is set
  fetches,       \* one record per call of fetchMetadata that issued a request
  props,         \* useMlink: the url and the `enabled` option of the current render
  mounted,       \* useMlink: "no", "yes" or "gone"
  definition,    \* server: the definition handed to createAction
  built,         \* server: what createAction did with it
  post,          \* server: the request being served, and how far it got
  handlerCalls,  \* server: the contexts definition.handler was called with
  responses,     \* server: the HTTP responses written for the request
  call,          \* library: a call of a pure function, [fn, args]
  result,        \* library: what the call returned
  selectedLinkedAction, \* Mlink: useState<LinkedAction | null>(null)
  paramValues,   \* Mlink: useState<Record<string, string | string[]>>({})
  executeCalls   \* Mlink: the calls of execute made by the component

execVars == <<status, txHash, error, execs, wallet>>
mlinkVars == <<mStatus, metadata, mError, abortControllerRef, intervalRef, fetches,
               props, mounted>>
serverVars == <<definition, built, post, handlerCalls, responses>>
libVars == <<call, result>>
formVars == <<selectedLinkedAction, paramValues, executeCalls>>
vars == <<status, txHash, error, execs, wallet,
          mStatus, metadata, mError, abortControllerRef, intervalRef, fetches,
          props, mounted,
          definition, built, post, handlerCalls, responses,
          call, result,
          selectedLinkedAction, paramValues, executeCalls>>

\* ------------------------------------------------- useExecuteMlink helpers

\* Faulty variant of ErrorMessageOf: the message of whatever was thrown, Error or not.
ErrorMessageOf_AnyMessage(err) == err.message

\* err instanceof Error ? err.message : 'Transaction failed'
ErrorMessageOf(err) == IF err.isError THEN err.message ELSE "Transaction failed"

\* `HTTP ${response.status}: ${response.statusText}`
HttpStatusMessage(resp) == "HTTP " \o ToString(resp.status) \o ": " \o resp.statusText

Truthy(s) == s # Null /\ s # ""

\* const errorData = await response.json().catch(() => ({}))
ErrorDataOf(body) ==
  IF body.kind = "unparseable"
    THEN [kind |-> "object", errorMessage |-> Null, message |-> Null]
    ELSE body

\* Faulty variant of HttpFailureError: the top-level `message` of the payload is not
\* consulted.
HttpFailureError_ErrorFieldOnly(resp, errorData) ==
  IF errorData.kind = "null"
    THEN [isError |-> TRUE, message |-> "Cannot read properties of null (reading 'error')"]
    ELSE [isError |-> TRUE,
          message |-> IF Truthy(errorData.errorMessage) THEN errorData.errorMessage
                      ELSE "HTTP " \o ToString(resp.status) \o ": " \o resp.statusText]

\* errorData.error?.message || errorData.message || `HTTP ...`, thrown as an
\* Error; reading `.error` of a null body throws a TypeError instead.
HttpFailureError(resp, errorData) ==
  IF errorData.kind = "null"
    THEN [isError |-> TRUE, message |-> "Cannot read properties of null (reading 'error')"]
    ELSE [isError |-> TRUE,
          message |-> IF Truthy(errorData.errorMessage) THEN errorData.errorMessage
                      ELSE IF Truthy(errorData.message) THEN errorData.message
                      ELSE HttpStatusMessage(resp)]

\* Faulty variant of NormalizeTransactions: the single `transaction` wins over the list.
NormalizeTransactions_PreferSingle(body) ==
  IF body.transaction # None THEN <<body.transaction[1]>>
  ELSE IF body.transactions # None THEN body.transactions[1]
  ELSE <<>>

\* responseData.transactions ? responseData.transactions
\*   : responseData.transaction ? [responseData.transaction] : []
\* (an empty array is truthy in JavaScript)
NormalizeTransactions(body) ==
  IF body.transactions # None THEN body.transactions[1]
  ELSE IF body.transaction # None THEN <<body.transaction[1]>>
  ELSE <<>>

\* EVMTransactionSchema / TransactionResponseSchema, as validateTransactionResponse
\* applies them.
ValidEVMTransaction(tx) ==
  tx.to \in Addresses /\ tx.data \in HexStrings /\ tx.chainId > 0

\* Faulty variant of validateTransactionResponse: the earlier schema, in which
\* `transaction` is required and `transactions` unknown.
validateTransactionResponse_SingleOnly(body) ==
  body.transaction # None /\ ValidEVMTransaction(body.transaction[1])

validateTransactionResponse(body) ==
  /\ body.transaction # None => ValidEVMTransaction(body.transaction[1])
  /\ body.transactions # None =>
       \A i \in 1..Len(body.transactions[1]) : ValidEVMTransaction(body.transactions[1][i])
  /\ \/ body.transaction # None
     \/ (body.transactions # None /\ Len(body.transactions[1]) > 0)

\* The record of an execute call that has not been made yet. `callback` holds
\* the optional call onSuccess?.(lastHash, action) or onError?.(errorMessage):
\* the arguments the callback receives when the options register one.
NotStarted ==
  [pc |-> "idle", action |-> Null, connectCalled |-> FALSE, account |-> Null,
   posted |-> FALSE, http |-> None, errorData |-> None, body |-> None, txs |-> <<>>, calls |-> <<>>,
   lastHash |-> "", thrown |-> None, callback |-> None, result |-> None]

ExecIds == 1..MaxExecutes

\* The descriptors handed to adapter.signAndSendTransaction by execute e, in
\* call order.
Handed(e) == [i \in 1..Len(execs[e].calls) |-> execs[e].calls[i].tx]

InFlightSigns(e) == {i \in 1..Len(execs[e].calls) : execs[e].calls[i].outcome = "pending"}

\* ------------------------------------------------- useExecuteMlink actions

\* Accounts the wallet can hold or connect() can return.
Accounts == {"0xc3"}

InitExec ==
  /\ status = "ready"
  /\ txHash = Null
  /\ error = Null
  /\ execs = [e \in ExecIds |-> NotStarted]
  /\ wallet \in [connected : BOOLEAN, address : Accounts \cup {Null}]

\* fetch(actionUrl, {method: 'POST', body: {account, action, input, data}})
IssuePost(rec, account) == [rec EXCEPT !.pc = "post", !.posted = TRUE, !.account = account]

\* The catch block of execute (lines 112-123).
Catch(e, rec, err) ==
  LET errorMessage == ErrorMessageOf(err) IN
  /\ error' = errorMessage
  /\ status' = "error"
  /\ execs' = [execs EXCEPT ![e] =
       [rec EXCEPT !.pc = "done", !.thrown = Some(err),
                   !.callback = Some(<<"onError", errorMessage>>),
                   !.result = Some([success |-> FALSE, value |-> errorMessage])]]
  /\ UNCHANGED txHash

\* Faulty variant of Succeed: the hash of the first descriptor is reported.
Succeed_FirstHash(e, rec) ==
  /\ txHash' = rec.calls[1].hash
  /\ status' = "success"
  /\ execs' = [execs EXCEPT ![e] =
       [rec EXCEPT !.pc = "done",
                   !.callback = Some(<<"onSuccess", rec.calls[1].hash, rec.action>>),
                   !.result = Some([success |-> TRUE, value |-> rec.calls[1].hash])]]
  /\ UNCHANGED error

\* Lines 103-111: every descriptor has been sent.
Succeed(e, rec) ==
  /\ txHash' = rec.lastHash
  /\ status' = "success"
  /\ execs' = [execs EXCEPT ![e] =
       [rec EXCEPT !.pc = "done",
                   !.callback = Some(<<"onSuccess", rec.lastHash, rec.action>>),
                   !.result = Some([success |-> TRUE, value |-> rec.lastHash])]]
  /\ UNCHANGED error

\* The call adapter.signAndSendTransaction(tx) made by one round of the loop.
SignCall(tx) == [tx |-> tx, outcome |-> "pending", hash |-> Null]

\* Faulty variant of BeginSigning: every descriptor is handed over at once
\* (Promise.all over the list).
BeginSigning_AllAtOnce(txs) == [i \in 1..Len(txs) |-> [tx |-> txs[i], outcome |-> "pending", hash |-> Null]]

\* Entering `for (const tx of transactions)`: the first descriptor is handed
\* to the adapter and the function suspends on that call.
BeginSigning(txs) == <<SignCall(txs[1])>>

\* The await of call i returned `hash`: the next round, if any, hands over the
\* next descriptor.
ContinueSigning(rec, i, hash) ==
  LET returned == [rec.calls EXCEPT ![i] = [@ EXCEPT !.outcome = "returned", !.hash = hash]] IN
  IF i < Len(rec.txs) THEN Append(returned, SignCall(rec.txs[i + 1])) ELSE returned

\* Faulty variant of NeedsConnect: the address is not looked at.
NeedsConnect_IgnoresAddress(w) == ~w.connected

\* if (!adapter.isConnected() || !account), with account = adapter.getAddress()
NeedsConnect(w) == ~w.connected \/ ~Truthy(w.address)

\* execute(action, ...) up to its first await (lines 52-75).
Execute(e, action) ==
  /\ execs[e].pc = "idle"
  /\ \A d \in ExecIds : d < e => execs[d].pc # "idle"
  /\ status' = "executing"
  /\ error' = Null
  /\ txHash' = Null
  /\ LET account == wallet.address
         rec == [execs[e] EXCEPT !.action = action] IN
     execs' = [execs EXCEPT ![e] =
       IF NeedsConnect(wallet)
         THEN [rec EXCEPT !.pc = "connect", !.connectCalled = TRUE]
         ELSE IssuePost(rec, account)]
  /\ UNCHANGED <<wallet, mlinkVars, serverVars, libVars, formVars>>

\* account = await adapter.connect() resolved.
ConnectReturn(e, addr) ==
  /\ execs[e].pc = "connect"
  /\ wallet' \in {wallet, [connected |-> TRUE, address |-> addr]}
  /\ execs' = [execs EXCEPT ![e] = IssuePost(@, addr)]
  /\ UNCHANGED <<status, txHash, error, mlinkVars, serverVars, libVars, formVars>>

\* await adapter.connect() rejected.
ConnectFail(e, err) ==
  /\ execs[e].pc = "connect"
  /\ Catch(e, execs[e], err)
  /\ UNCHANGED <<wallet, mlinkVars, serverVars, libVars, formVars>>

\* await fetch(...) rejected (network failure).
PostFail(e) ==
  /\ execs[e].pc = "post"
  /\ Catch(e, execs[e], [isError |-> TRUE, message |-> "Failed to fetch"])
  /\ UNCHANGED <<wallet, mlinkVars, serverVars, libVars, formVars>>

\* await fetch(...) resolved with response.ok.
PostOk(e) ==
  /\ execs[e].pc = "post"
  /\ execs' = [execs EXCEPT ![e].pc = "json"]
  /\ UNCHANGED <<status, txHash, error, wallet, mlinkVars, serverVars, libVars, formVars>>

\* await fetch(...) resolved with !response.ok.
PostNotOk(e, resp) ==
  /\ execs[e].pc = "post"
  /\ execs' = [execs EXCEPT ![e].pc = "errjson", ![e].http = Some(resp)]
  /\ UNCHANGED <<status, txHash, error, wallet, mlinkVars, serverVars, libVars, formVars>>

\* Lines 78-81: the error payload was read; the Error is thrown and caught.
ErrorBodyRead(e, body) ==
  /\ execs[e].pc = "errjson"
  /\ Catch(e, [execs[e] EXCEPT !.errorData = Some(ErrorDataOf(body))],
           HttpFailureError(execs[e].http[1], ErrorDataOf(body)))
  /\ UNCHANGED <<wallet, mlinkVars, serverVars, libVars, formVars>>

\* await response.json() rejected: the 2xx body is not JSON.
BodyUnparseable(e) ==
  /\ execs[e].pc = "json"
  /\ Catch(e, execs[e], [isError |-> TRUE, message |-> "Unexpected token < in JSON"])
  /\ UNCHANGED <<wallet, mlinkVars, serverVars, libVars, formVars>>

\* Lines 84-100: the 2xx body was read; normalise and enter the loop.
BodyRead(e, body) ==
  /\ execs[e].pc = "json"
  /\ LET transactions == NormalizeTransactions(body)
         rec == [execs[e] EXCEPT !.body = Some(body), !.txs = transactions] IN
     IF Len(transactions) = 0
       THEN Catch(e, rec, [isError |-> TRUE, message |-> "No transaction returned from action"])
       ELSE /\ execs' = [execs EXCEPT ![e] =
                  [rec EXCEPT !.pc = "sign", !.calls = BeginSigning(transactions)]]
            /\ UNCHANGED <<status, txHash, error>>
  /\ UNCHANGED <<wallet, mlinkVars, serverVars, libVars, formVars>>

\* lastHash = await adapter.signAndSendTransaction(tx) resolved.
SignReturn(e) ==
  /\ execs[e].pc = "sign"
  /\ \E i \in InFlightSigns(e) :
       LET hash == HashOf(execs[e].calls[i].tx)
           calls == ContinueSigning(execs[e], i, hash)
           rec == [execs[e] EXCEPT !.calls = calls, !.lastHash = hash] IN
       IF \E j \in 1..Len(calls) : calls[j].outcome = "pending"
         THEN /\ execs' = [execs EXCEPT ![e] = rec]
              /\ UNCHANGED <<status, txHash, error>>
         ELSE Succeed(e, rec)
  /\ UNCHANGED <<wallet, mlinkVars, serverVars, libVars, formVars>>

\* await adapter.signAndSendTransaction(tx) rejected.
SignFail(e, err) ==
  /\ execs[e].pc = "sign"
  /\ \E i \in InFlightSigns(e) :
       Catch(e, [execs[e] EXCEPT !.calls[i].outcome = "failed"], err)
  /\ UNCHANGED <<wallet, mlinkVars, serverVars, libVars, formVars>>

\* Faulty variant of Reset: the error is left in place.
Reset_KeepsError ==
  /\ status' = "ready"
  /\ txHash' = Null
  /\ UNCHANGED <<error, execs, wallet, mlinkVars, serverVars, libVars, formVars>>

\* reset() (lines 40-44).
Reset ==
  /\ status' = "ready"
  /\ txHash' = Null
  /\ error' = Null
  /\ UNCHANGED <<execs, wallet, mlinkVars, serverVars, libVars, formVars>>

NextExec ==
  \/ \E e \in ExecIds : Execute(e, ActionArg(e))
  \/ \E e \in ExecIds, addr \in Accounts : ConnectReturn(e, addr)
  \/ \E e \in ExecIds, err \in ConnectFailures : ConnectFail(e, err)
  \/ \E e \in ExecIds : PostFail(e)
  \/ \E e \in ExecIds : PostOk(e)
  \/ \E e \in ExecIds, resp \in HttpFailures : PostNotOk(e, resp)
  \/ \E e \in ExecIds, body \in ErrorBodies : ErrorBodyRead(e, body)
  \/ \E e \in ExecIds : BodyUnparseable(e)
  \/ \E e \in ExecIds, body \in ResponseBodies : BodyRead(e, body)
  \/ \E e \in ExecIds : SignReturn(e)
  \/ \E e \in ExecIds, err \in Thrown : SignFail(e, err)
  \/ Reset

\* ------------------------------------------------------------ useMlink

FetchIds == 1..MaxFetches

\* Metadata documents a GET can return: `actions` is None or Some(list),
\* `links` is None or Some([actions |-> list]). Length limits are not modelled.
LegacyButton == [label |-> "Tip 1 MNT", value |-> "buy", type |-> "button"]
LinkedTip == [href |-> "/api/tip?amount={amount}", label |-> "Tip"]
TipDoc == [title |-> "Tip", icon |-> "https://app.example/icon.png",
           description |-> "Send a tip", actions |-> None, links |-> None]
MetadataDocs ==
  { [TipDoc EXCEPT !.actions = Some(<<LegacyButton>>)],
    [TipDoc EXCEPT !.links = Some([actions |-> <<LinkedTip>>])],
    [TipDoc EXCEPT !.actions = Some(<<>>)],
    [TipDoc EXCEPT !.actions = Some(<<LegacyButton>>), !.icon = "icon.png"] }

\* iconSchema: an http(s) URL, a data:image/ URI or a root-relative path.
ValidIcons == {"https://app.example/icon.png", "data:image/png;base64,AAAA", "/icon.png"}

\* An issue of a ZodError. A type-level issue (a missing field, a value
\* outside an enum) ends the parse of every enclosing object and array as
\* invalid; a failed check (min, refine) is recorded and parsing goes on.
Issue(message, fatal) == [message |-> message, fatal |-> fatal]
TooSmall == Issue("String must contain at least 1 character(s)", FALSE)

ActionButtonIssues(b) ==
  (IF b.label = "" THEN <<TooSmall>> ELSE <<>>)
  \o (IF b.value = "" THEN <<TooSmall>> ELSE <<>>)
  \o (IF b.type \notin {"button", "input"} THEN <<Issue("Invalid enum value", TRUE)>> ELSE <<>>)

LinkedActionIssues(a) ==
  (IF a.href = "" THEN <<TooSmall>> ELSE <<>>)
  \o (IF a.label = "" THEN <<TooSmall>> ELSE <<>>)

\* z.array(ActionButtonSchema) and z.array(LinkedActionSchema)
RECURSIVE ActionButtonListIssues(_)
ActionButtonListIssues(list) ==
  IF list = <<>> THEN <<>>
  ELSE ActionButtonIssues(Head(list)) \o ActionButtonListIssues(Tail(list))

RECURSIVE LinkedActionListIssues(_)
LinkedActionListIssues(list) ==
  IF list = <<>> THEN <<>>
  ELSE LinkedActionIssues(Head(list)) \o LinkedActionListIssues(Tail(list))

\* The issues of the fields of ActionMetadataSchema, in field order.
MetadataFieldIssues(doc) ==
  (IF doc.title = Null THEN <<Issue("Required", TRUE)>>
   ELSE IF doc.title = "" THEN <<TooSmall>> ELSE <<>>)
  \o (IF doc.icon \notin ValidIcons
        THEN <<Issue("Icon must be a valid URL, base64 data URI, or relative path", FALSE)>>
        ELSE <<>>)
  \o (IF doc.description = "" THEN <<TooSmall>> ELSE <<>>)
  \o (IF doc.actions = None THEN <<>> ELSE ActionButtonListIssues(doc.actions[1]))
  \o (IF doc.links = None THEN <<>>
       ELSE (IF Len(doc.links[1].actions) < 1
               THEN <<Issue("Array must contain at least 1 element(s)", FALSE)>> ELSE <<>>)
            \o LinkedActionListIssues(doc.links[1].actions))

\* Faulty variant of ActionMetadataIssues: the schema without its refinement.
ActionMetadataIssues_NoRefinement(doc) ==
  [i \in 1..Len(MetadataFieldIssues(doc)) |-> MetadataFieldIssues(doc)[i].message]

\* The messages of ActionMetadataSchema.safeParse(doc).error: the issues of
\* the fields and, unless one of them ended the parse, the refinement of
\* lines 270-277.
ActionMetadataIssues(doc) ==
  LET fields == MetadataFieldIssues(doc)
      aborted == \E i \in 1..Len(fields) : fields[i].fatal
      hasAction == \/ (doc.actions # None /\ Len(doc.actions[1]) > 0)
                   \/ (doc.links # None /\ Len(doc.links[1].actions) > 0)
  IN [i \in 1..Len(fields) |-> fields[i].message]
     \o (IF ~aborted /\ ~hasAction
           THEN <<"Must have at least one action or linked action">> ELSE <<>>)

\* validateActionMetadata(doc).success
validateActionMetadata(doc) == ActionMetadataIssues(doc) = <<>>

Urls == {"", "https://app.example/api/tip"}

InitMlink ==
  /\ mStatus = "idle"
  /\ metadata = None
  /\ mError = Null
  /\ abortControllerRef = 0
  /\ intervalRef = FALSE
  /\ fetches = [f \in FetchIds |-> [pc |-> "unused", aborted |-> FALSE]]
  /\ props \in [url : Urls, enabled : BOOLEAN, refreshInterval : {0, 600000}]
  /\ mounted = "no"

\* Faulty variant of AbortCurrent: the previous controller is never aborted.
AbortCurrent_Skipped(fs, ref) == fs

\* abortControllerRef.current.abort() when the ref holds a controller
\* (lines 140-142 and the effect cleanup, lines 190-194).
AbortCurrent(fs, ref) ==
  IF ref # 0 THEN [fs EXCEPT ![ref].aborted = TRUE] ELSE fs

\* A call of fetchMetadata of the render with props p gets past the guard of
\* line 137 and has a controller left to allocate.
PassesGuard(p) == p.url # "" /\ p.enabled

HasFreeFetch == \E f \in FetchIds : fetches[f].pc = "unused"

CanFetch(p) == PassesGuard(p) /\ HasFreeFetch

NewFetch == CHOOSE f \in FetchIds :
              fetches[f].pc = "unused" /\ \A g \in FetchIds : g < f => fetches[g].pc # "unused"

\* fetchMetadata up to its first await (lines 137-156), applied to the fetch
\* table fs.
StartFetch(fs) ==
  /\ fetches' = [AbortCurrent(fs, abortControllerRef) EXCEPT
                   ![NewFetch] = [pc |-> "fetch", aborted |-> FALSE]]
  /\ abortControllerRef' = NewFetch
  /\ mStatus' = "loading"
  /\ mError' = Null
  /\ UNCHANGED metadata

\* First render: both effects run (lines 185-210).
Mount ==
  /\ mounted = "no"
  /\ mounted' = "yes"
  /\ intervalRef' = (props.enabled /\ props.refreshInterval # 0)
  /\ IF props.enabled /\ CanFetch(props)
       THEN StartFetch(fetches)
       ELSE UNCHANGED <<fetches, abortControllerRef, mStatus, mError, metadata>>
  /\ UNCHANGED <<props, execVars, serverVars, libVars, formVars>>

\* A render with a changed url or `enabled`: fetchMetadata is a new function,
\* so both effects clean up and run again.
Rerender(p) ==
  /\ mounted = "yes"
  /\ p # props
  /\ p.refreshInterval = props.refreshInterval
  /\ PassesGuard(p) => HasFreeFetch
  /\ props' = p
  /\ intervalRef' = (p.enabled /\ p.refreshInterval # 0)
  /\ IF p.enabled /\ CanFetch(p)
       THEN StartFetch(AbortCurrent(fetches, abortControllerRef))
       ELSE /\ fetches' = AbortCurrent(fetches, abortControllerRef)
            /\ UNCHANGED <<abortControllerRef, mStatus, mError, metadata>>
  /\ UNCHANGED <<mounted, execVars, serverVars, libVars, formVars>>

\* The interval fires (lines 201-203).
IntervalTick ==
  /\ mounted = "yes"
  /\ intervalRef
  /\ CanFetch(props)
  /\ StartFetch(fetches)
  /\ UNCHANGED <<props, mounted, intervalRef, execVars, serverVars, libVars, formVars>>

\* The consumer calls refresh() (line 217).
Refresh ==
  /\ mounted = "yes"
  /\ CanFetch(props)
  /\ StartFetch(fetches)
  /\ UNCHANGED <<props, mounted, intervalRef, execVars, serverVars, libVars, formVars>>

\* Unmount: the cleanups of both effects.
Unmount ==
  /\ mounted = "yes"
  /\ mounted' = "gone"
  /\ fetches' = AbortCurrent(fetches, abortControllerRef)
  /\ intervalRef' = FALSE
  /\ UNCHANGED <<abortControllerRef, mStatus, mError, metadata, props, execVars, serverVars, libVars, formVars>>

InFlight(f) == fetches[f].pc \in {"fetch", "json"}

\* The catch block for anything but an AbortError (lines 177-180).
FetchCatch(f, message) ==
  /\ mError' = message
  /\ mStatus' = "error"
  /\ fetches' = [fetches EXCEPT ![f].pc = "done"]
  /\ UNCHANGED <<metadata, abortControllerRef>>

\* Faulty variant of FetchAborted: the AbortError reaches lines 177-180.
FetchAborted_AsError(f) ==
  /\ InFlight(f)
  /\ fetches[f].aborted
  /\ FetchCatch(f, "The operation was aborted.")
  /\ UNCHANGED <<intervalRef, props, mounted, execVars, serverVars, libVars, formVars>>

\* Faulty variant of FetchAborted: a cancelled request puts the hook back to
\* 'idle'.
FetchAborted_ToIdle(f) ==
  /\ InFlight(f)
  /\ fetches[f].aborted
  /\ fetches' = [fetches EXCEPT ![f].pc = "done"]
  /\ mStatus' = "idle"
  /\ UNCHANGED <<metadata, mError, abortControllerRef, intervalRef, props,
                 mounted, execVars, serverVars, libVars, formVars>>

\* The awaited fetch or json() of an aborted request rejects with an
\* AbortError, which the catch block ignores (lines 173-175).
FetchAborted(f) ==
  /\ InFlight(f)
  /\ fetches[f].aborted
  /\ fetches' = [fetches EXCEPT ![f].pc = "done"]
  /\ UNCHANGED <<mStatus, metadata, mError, abortControllerRef, intervalRef, props,
                 mounted, execVars, serverVars, libVars, formVars>>

\* await fetch(...) rejected: network failure.
FetchNetworkFail(f) ==
  /\ fetches[f].pc = "fetch"
  /\ ~fetches[f].aborted
  /\ FetchCatch(f, "Failed to fetch")
  /\ UNCHANGED <<intervalRef, props, mounted, execVars, serverVars, libVars, formVars>>

\* await fetch(...) resolved.
FetchRespond(f, ok) ==
  /\ fetches[f].pc = "fetch"
  /\ ~fetches[f].aborted
  /\ IF ok
       THEN /\ fetches' = [fetches EXCEPT ![f].pc = "json"]
            /\ UNCHANGED <<mStatus, metadata, mError, abortControllerRef>>
       ELSE FetchCatch(f, "HTTP 500: Internal Server Error")
  /\ UNCHANGED <<intervalRef, props, mounted, execVars, serverVars, libVars, formVars>>

\* await response.json() rejected: the body is not JSON.
FetchUnparseable(f) ==
  /\ fetches[f].pc = "json"
  /\ ~fetches[f].aborted
  /\ FetchCatch(f, "Unexpected token < in JSON")
  /\ UNCHANGED <<intervalRef, props, mounted, execVars, serverVars, libVars, formVars>>

\* Faulty variant of FetchBody: the body is stored without being validated.
FetchBody_Unvalidated(f, doc) ==
  /\ fetches[f].pc = "json"
  /\ ~fetches[f].aborted
  /\ metadata' = Some(doc)
  /\ mStatus' = "ready"
  /\ fetches' = [fetches EXCEPT ![f].pc = "done"]
  /\ UNCHANGED <<mError, abortControllerRef, intervalRef, props, mounted, execVars,
                 serverVars, libVars, formVars>>

\* await response.json() resolved (lines 162-171).
FetchBody(f, doc) ==
  /\ fetches[f].pc = "json"
  /\ ~fetches[f].aborted
  /\ IF validateActionMetadata(doc)
       THEN /\ metadata' = Some(doc)
            /\ mStatus' = "ready"
            /\ fetches' = [fetches EXCEPT ![f].pc = "done"]
            /\ UNCHANGED <<mError, abortControllerRef>>
       ELSE FetchCatch(f, "Invalid metadata: schema violation")
  /\ UNCHANGED <<intervalRef, props, mounted, execVars, serverVars, libVars, formVars>>

NextMlink ==
  \/ Mount
  \/ \E p \in [url : Urls, enabled : BOOLEAN, refreshInterval : {0, 600000}] : Rerender(p)
  \/ IntervalTick
  \/ Refresh
  \/ Unmount
  \/ \E f \in FetchIds : FetchAborted(f)
  \/ \E f \in FetchIds : FetchNetworkFail(f)
  \/ \E f \in FetchIds, ok \in BOOLEAN : FetchRespond(f, ok)
  \/ \E f \in FetchIds : FetchUnparseable(f)
  \/ \E f \in FetchIds, doc \in MetadataDocs : FetchBody(f, doc)

\* ------------------------------------------- createAction and the adapters

\* Array.prototype.join
RECURSIVE Join(_, _)
Join(msgs, sep) ==
  IF Len(msgs) = 0 THEN ""
  ELSE IF Len(msgs) = 1 THEN msgs[1]
  ELSE msgs[1] \o sep \o Join(Tail(msgs), sep)

\* Legacy entries as button() and input() build them; input() fixes the value
\* to '__input__'.
InputEntry == [label |-> "Custom", value |-> "__input__", type |-> "input"]
NamedInputEntry == [label |-> "Amount", value |-> "amount", type |-> "input"]

\* Definitions handed to createAction. A missing field is Null, `actions` and
\* `links` are None or Some(...), `handler` is a function or another value.
Definitions ==
  [ title : {Null, "", "Tip"},
    icon : {Null, "https://app.example/icon.png"},
    description : {Null, "Send a tip"},
    actions : {None, Some(<<>>), Some(<<LegacyButton>>), Some(<<LegacyButton, InputEntry>>),
               Some(<<NamedInputEntry>>)},
    links : {None, Some([actions |-> <<>>]), Some([actions |-> <<LinkedTip>>])},
    handler : {"function", Null} ]

\* TransactionRequest bodies: a missing field is Null.
Requests ==
  [ account : {Null, "0xc3", "not-an-address"},
    action : {Null, "", "buy", "__input__", "amount", "sell"},
    input : {Null, "", "5"} ]

\* What definition.handler resolves to (it is not validated on the server) or
\* rejects with.
HandlerResponses == { [transaction |-> Some(TxA), transactions |-> None],
                      [transaction |-> None, transactions |-> None] }
HandlerFailures == { [isError |-> TRUE, message |-> "Insufficient liquidity"],
                     [isError |-> FALSE, message |-> "Insufficient liquidity"] }

\* addressRegex.test(address)
isValidAddress(address) == address \in Addresses \cup Accounts

\* The issues TransactionRequestSchema.safeParse reports, in field order.
TransactionRequestIssues(request) ==
  (IF request.account = Null THEN <<"Required">>
   ELSE IF ~isValidAddress(request.account) THEN <<"Invalid Ethereum address">>
   ELSE <<>>)
  \o
  (IF request.action = Null THEN <<"Required">>
   ELSE IF request.action = "" THEN <<"String must contain at least 1 character(s)">>
   ELSE <<>>)

\* validateTransactionRequest: success with the parsed data, or the message
\* of the ZodError.
validateTransactionRequest(request) ==
  IF TransactionRequestIssues(request) = <<>>
    THEN [success |-> TRUE, data |-> request, error |-> Null]
    ELSE [success |-> FALSE, data |-> Null,
          error |-> Join(TransactionRequestIssues(request), "; ")]

\* Faulty variant of createAction: links.actions does not count as actions.
createAction_LegacyOnly(def) ==
  IF ~Truthy(def.title) THEN [state |-> "threw", error |-> "Action title is required"]
  ELSE IF ~Truthy(def.icon) THEN [state |-> "threw", error |-> "Action icon is required"]
  ELSE IF ~Truthy(def.description)
    THEN [state |-> "threw", error |-> "Action description is required"]
  ELSE IF ~(def.actions # None /\ Len(def.actions[1]) > 0)
    THEN [state |-> "threw", error |-> "At least one action is required"]
  ELSE IF def.handler # "function"
    THEN [state |-> "threw", error |-> "Handler must be a function"]
  ELSE [state |-> "created", error |-> Null]

\* createAction up to its return: the checks of the definition, in order.
createAction(def) ==
  IF ~Truthy(def.title) THEN [state |-> "threw", error |-> "Action title is required"]
  ELSE IF ~Truthy(def.icon) THEN [state |-> "threw", error |-> "Action icon is required"]
  ELSE IF ~Truthy(def.description)
    THEN [state |-> "threw", error |-> "Action description is required"]
  ELSE IF /\ ~(def.actions # None /\ Len(def.actions[1]) > 0)
          /\ ~(def.links # None /\ Len(def.links[1].actions) > 0)
    THEN [state |-> "threw", error |-> "At least one action or linked action is required"]
  ELSE IF def.handler # "function"
    THEN [state |-> "threw", error |-> "Handler must be a function"]
  ELSE [state |-> "created", error |-> Null]

\* getMetadata() of the action createAction returned: the fields of the
\* definition, as the document a GET serves.
getMetadata(def) ==
  [title |-> def.title, icon |-> def.icon, description |-> def.description,
   actions |-> def.actions, links |-> def.links]

\* The predicate of definition.actions.find(...).
MatchesEntry(a, request) ==
  a.value = request.action \/ (a.type = "input" /\ request.action = "__input__")

\* definition.actions.find(...): the first matching entry, None for undefined.
SelectedAction(def, request) ==
  IF def.actions = None THEN None
  ELSE LET l == def.actions[1]
           hits == {i \in 1..Len(l) : MatchesEntry(l[i], request)}
       IN IF hits = {} THEN None
          ELSE Some(l[CHOOSE i \in hits : \A j \in hits : i <= j])

\* Faulty variant of handleRequest: the input of an input entry is not required.
handleRequest_InputOptional(def, request) ==
  IF ~validateTransactionRequest(request).success
    THEN [threw |-> TRUE, message |-> validateTransactionRequest(request).error]
  ELSE [threw |-> FALSE, message |-> Null]

\* handleRequest up to the call of definition.handler: what it throws, or
\* that it reaches the handler.
handleRequest(def, request) ==
  IF ~validateTransactionRequest(request).success
    THEN [threw |-> TRUE, message |-> validateTransactionRequest(request).error]
  ELSE IF /\ SelectedAction(def, request) # None
          /\ SelectedAction(def, request)[1].type = "input"
          /\ ~Truthy(request.input)
    THEN [threw |-> TRUE, message |-> "Input value is required"]
  ELSE [threw |-> FALSE, message |-> Null]

\* The context definition.handler is called with.
HandlerContext(request) ==
  [account |-> request.account, action |-> request.action, input |-> request.input]

\* error instanceof Error ? error.message : 'Unknown error'
AdapterErrorMessage(err) == IF err.isError THEN err.message ELSE "Unknown error"

ErrorPayload(message) == [error |-> [message |-> message]]

NoRequest == [account |-> Null, action |-> Null, input |-> Null]

\* The frame of one served request. `handled` tells that action.handleRequest
\* was called, `outcome` how its promise settled.
Idle == [pc |-> "idle", via |-> Null, request |-> NoRequest, handled |-> FALSE,
         outcome |-> None]

InitServer ==
  /\ definition \in Definitions
  /\ built = [state |-> "none", error |-> Null]
  /\ post = Idle
  /\ handlerCalls = <<>>
  /\ responses = <<>>

\* createAction(definition).
CreateAction ==
  /\ built.state = "none"
  /\ built' = createAction(definition)
  /\ UNCHANGED <<definition, post, handlerCalls, responses>>
  /\ UNCHANGED <<execVars, mlinkVars, libVars, formVars>>

\* The catch block of an adapter's POST handler: one 500 response.
Respond500(frame, err) ==
  /\ responses' = Append(responses, [status |-> 500,
                                      body |-> ErrorPayload(AdapterErrorMessage(err))])
  /\ post' = [frame EXCEPT !.pc = "done"]

\* action.handleRequest(request) up to its first await, called by `via`.
\* A throw rejects the promise: the direct caller sees the rejection, an
\* adapter's catch block answers 500.
CallHandleRequest(frame, request) ==
  LET h == handleRequest(definition, request)
      f == [frame EXCEPT !.request = request, !.handled = TRUE]
      err == [isError |-> TRUE, message |-> h.message]
      rejected == [f EXCEPT !.outcome = Some([rejected |-> TRUE, value |-> err])]
  IN IF h.threw
       THEN /\ handlerCalls' = handlerCalls
            /\ IF f.via = "direct"
                 THEN /\ post' = [rejected EXCEPT !.pc = "done"]
                      /\ responses' = responses
                 ELSE Respond500(rejected, err)
       ELSE /\ handlerCalls' = Append(handlerCalls, HandlerContext(request))
            /\ post' = [f EXCEPT !.pc = "handler"]
            /\ responses' = responses

\* A caller other than an adapter calls action.handleRequest(request).
HandleRequest(request) ==
  /\ built.state = "created"
  /\ post.pc = "idle"
  /\ CallHandleRequest([post EXCEPT !.via = "direct"], request)
  /\ UNCHANGED <<definition, built>>
  /\ UNCHANGED <<execVars, mlinkVars, libVars, formVars>>

\* validateTransactionRequest(body) of an adapter, and what follows it up to
\* the next await.
AdapterValidate(frame, body) ==
  LET validation == validateTransactionRequest(body)
  IN IF ~validation.success
       THEN /\ responses' = Append(responses, [status |-> 400,
                                               body |-> ErrorPayload(validation.error)])
            /\ post' = [frame EXCEPT !.pc = "done", !.request = body]
            /\ handlerCalls' = handlerCalls
       ELSE CallHandleRequest(frame, validation.data)

\* POST to the Express router with req.body as the body parser left it.
ExpressPost(body) ==
  /\ built.state = "created"
  /\ post.pc = "idle"
  /\ AdapterValidate([post EXCEPT !.via = "express"], body)
  /\ UNCHANGED <<definition, built>>
  /\ UNCHANGED <<execVars, mlinkVars, libVars, formVars>>

\* POST to the Next route handler, up to `await request.json()`.
NextPost ==
  /\ built.state = "created"
  /\ post.pc = "idle"
  /\ post' = [post EXCEPT !.via = "next", !.pc = "json"]
  /\ UNCHANGED <<definition, built, handlerCalls, responses>>
  /\ UNCHANGED <<execVars, mlinkVars, libVars, formVars>>

\* request.json() resolved.
NextBodyParsed(body) ==
  /\ post.pc = "json"
  /\ AdapterValidate(post, body)
  /\ UNCHANGED <<definition, built>>
  /\ UNCHANGED <<execVars, mlinkVars, libVars, formVars>>

\* request.json() rejected: the body is not JSON.
NextBodyUnparseable ==
  /\ post.pc = "json"
  /\ Respond500(post, [isError |-> TRUE, message |-> "Unexpected token < in JSON"])
  /\ UNCHANGED <<definition, built, handlerCalls>>
  /\ UNCHANGED <<execVars, mlinkVars, libVars, formVars>>

\* definition.handler resolved: handleRequest returns the response as it is,
\* an adapter writes it with status 200.
HandlerReturn(response) ==
  /\ post.pc = "handler"
  /\ post' = [post EXCEPT !.pc = "done",
                !.outcome = Some([rejected |-> FALSE, value |-> response])]
  /\ responses' = IF post.via = "direct" THEN responses
                  ELSE Append(responses, [status |-> 200, body |-> response])
  /\ UNCHANGED <<definition, built, handlerCalls>>
  /\ UNCHANGED <<execVars, mlinkVars, libVars, formVars>>

\* definition.handler rejected: handleRequest rejects with the same value.
HandlerThrow(err) ==
  /\ post.pc = "handler"
  /\ IF post.via = "direct"
       THEN /\ post' = [post EXCEPT !.pc = "done",
                          !.outcome = Some([rejected |-> TRUE, value |-> err])]
            /\ responses' = responses
       ELSE Respond500([post EXCEPT !.outcome = Some([rejected |-> TRUE, value |-> err])],
                       err)
  /\ UNCHANGED <<definition, built, handlerCalls>>
  /\ UNCHANGED <<execVars, mlinkVars, libVars, formVars>>

NextServer ==
  \/ CreateAction
  \/ \E request \in Requests : HandleRequest(request)
  \/ \E body \in Requests : ExpressPost(body)
  \/ NextPost
  \/ \E body \in Requests : NextBodyParsed(body)
  \/ NextBodyUnparseable
  \/ \E response \in HandlerResponses : HandlerReturn(response)
  \/ \E err \in HandlerFailures : HandlerThrow(err)

\* ------------------------------------------------------- pure functions
\* Strings whose characters matter (parameter values, href templates, URLs)
\* are sequences of one-character strings; Digits, HexDigits, DigitValue,
\* Drop, IndexOf, HasPrefix and SeqsUpTo are the string operations of this
\* encoding.

Digits == {"0", "1", "2", "3", "4", "5", "6", "7", "8", "9"}
HexDigits == Digits \cup {"a", "b", "c", "d", "e", "f", "A", "B", "C", "D", "E", "F"}

DigitValue(c) == CHOOSE d \in 0..9 : ToString(d) = c

\* The part of s from position i on.
Drop(s, i) == SubSeq(s, i, Len(s))

\* ---- validateParameterValues

\* Values of a Record<string, string | string[]>: a missing key is undefined.
Undefined == [kind |-> "undefined", text |-> <<>>, items |-> <<>>]
Str(cs) == [kind |-> "string", text |-> cs, items |-> <<>>]
Arr(items) == [kind |-> "array", text |-> <<>>, items |-> items]

\* parseFloat on an optional sign followed by decimal digits: the value of the
\* longest numeric prefix, None for NaN. Fractions and exponents do not occur
\* in ValueTexts.
RECURSIVE DigitsPrefix(_)
DigitsPrefix(s) ==
  IF s # <<>> /\ Head(s) \in Digits THEN <<Head(s)>> \o DigitsPrefix(Tail(s)) ELSE <<>>

RECURSIVE DecimalValue(_)
DecimalValue(ds) ==
  IF ds = <<>> THEN 0
  ELSE 10 * DecimalValue(SubSeq(ds, 1, Len(ds) - 1)) + DigitValue(ds[Len(ds)])

parseFloat(s) ==
  LET negative == s # <<>> /\ Head(s) = "-"
      ds == DigitsPrefix(IF negative THEN Tail(s) ELSE s)
  IN IF ds = <<>> THEN None
     ELSE Some(IF negative THEN 0 - DecimalValue(ds) ELSE DecimalValue(ds))

\* new RegExp(pattern).test(s) for the patterns of ParameterKinds.
RegExpTest(pattern, s) ==
  IF pattern = "^[0-9]+$" THEN s # <<>> /\ \A i \in 1..Len(s) : s[i] \in Digits
  ELSE IF pattern = "^0x" THEN Len(s) >= 2 /\ s[1] = "0" /\ s[2] = "x"
  ELSE FALSE

\* addressRegex.test(s); two hex digits stand for the forty of an address,
\* as in Addresses.
addressRegexTest(s) ==
  /\ Len(s) = 4
  /\ s[1] = "0" /\ s[2] = "x"
  /\ s[3] \in HexDigits /\ s[4] \in HexDigits

\* Parameter definitions: absent optional fields are Null (strings) or None
\* (numbers).
AmountParam == [name |-> "amount", label |-> Null, required |-> TRUE, type |-> "number",
                pattern |-> "^[0-9]+$", patternDescription |-> Null,
                min |-> Some(2), max |-> Some(10)]
ParameterKinds ==
  { AmountParam,
    [AmountParam EXCEPT !.label = "Amount", !.required = FALSE, !.type = "amount",
                        !.patternDescription = "Digits only", !.min = None],
    [AmountParam EXCEPT !.name = "to", !.label = "Recipient", !.type = "address",
                        !.pattern = "^0x", !.min = None, !.max = None],
    [AmountParam EXCEPT !.name = "to", !.type = "select",
                        !.pattern = Null, !.min = None, !.max = None] }

ParameterNames == {"amount", "to"}

ValueTexts == { <<>>, <<"5">>, <<"1", "5">>, <<"1", "x">>, <<"x">>, <<"0", "x", "a", "1">> }

ParameterValues ==
  {Undefined} \cup {Str(t) : t \in ValueTexts}
              \cup {Arr(<<>>), Arr(<<<<"5">>, <<"x">>>>), Arr(<<<<>>>>)}

\* Faulty variant of ParameterErrors: only an absent value counts as missing.
ParameterErrors_UndefinedOnly(param, value) ==
  LET shown == IF Truthy(param.label) THEN param.label ELSE param.name
      strValue == IF value.kind = "array"
                    THEN (IF value.items = <<>> THEN None ELSE Some(value.items[1]))
                    ELSE Some(value.text)
      truthy == strValue # None /\ strValue[1] # <<>>
      num == IF truthy THEN parseFloat(strValue[1]) ELSE None
  IN IF param.required /\ value.kind = "undefined"
       THEN <<shown \o " is required">>
     ELSE IF value.kind = "undefined" \/ value = Str(<<>>) THEN <<>>
     ELSE
       (IF Truthy(param.pattern) /\ truthy /\ ~RegExpTest(param.pattern, strValue[1])
          THEN <<IF Truthy(param.patternDescription) THEN param.patternDescription
                 ELSE shown \o " has invalid format">>
          ELSE <<>>)
       \o
       (IF param.type \in {"number", "amount"} /\ truthy
          THEN IF num = None THEN <<shown \o " must be a number">>
               ELSE (IF param.min # None /\ num[1] < param.min[1]
                       THEN <<shown \o " must be at least " \o ToString(param.min[1])>>
                       ELSE <<>>)
                    \o
                    (IF param.max # None /\ num[1] > param.max[1]
                       THEN <<shown \o " must be at most " \o ToString(param.max[1])>>
                       ELSE <<>>)
          ELSE <<>>)
       \o
       (IF param.type = "address" /\ truthy /\ ~addressRegexTest(strValue[1])
          THEN <<shown \o " must be a valid Ethereum address">>
          ELSE <<>>)

\* One round of the loop of validateParameterValues (lines 397-436): the
\* messages pushed for `param`, in order.
ParameterErrors(param, value) ==
  LET shown == IF Truthy(param.label) THEN param.label ELSE param.name
      strValue == IF value.kind = "array"
                    THEN (IF value.items = <<>> THEN None ELSE Some(value.items[1]))
                    ELSE Some(value.text)
      truthy == strValue # None /\ strValue[1] # <<>>
      num == IF truthy THEN parseFloat(strValue[1]) ELSE None
  IN IF param.required /\ (value.kind = "undefined" \/ value = Str(<<>>) \/ value = Arr(<<>>))
       THEN <<shown \o " is required">>
     ELSE IF value.kind = "undefined" \/ value = Str(<<>>) THEN <<>>
     ELSE
       (IF Truthy(param.pattern) /\ truthy /\ ~RegExpTest(param.pattern, strValue[1])
          THEN <<IF Truthy(param.patternDescription) THEN param.patternDescription
                 ELSE shown \o " has invalid format">>
          ELSE <<>>)
       \o
       (IF param.type \in {"number", "amount"} /\ truthy
          THEN IF num = None THEN <<shown \o " must be a number">>
               ELSE (IF param.min # None /\ num[1] < param.min[1]
                       THEN <<shown \o " must be at least " \o ToString(param.min[1])>>
                       ELSE <<>>)
                    \o
                    (IF param.max # None /\ num[1] > param.max[1]
                       THEN <<shown \o " must be at most " \o ToString(param.max[1])>>
                       ELSE <<>>)
          ELSE <<>>)
       \o
       (IF param.type = "address" /\ truthy /\ ~addressRegexTest(strValue[1])
          THEN <<shown \o " must be a valid Ethereum address">>
          ELSE <<>>)

\* The loop of a fail-fast validateParameterValues: it stops at the first parameter that fails.
RECURSIVE CollectErrors_FailFast(_, _)
CollectErrors_FailFast(parameters, values) ==
  IF parameters = <<>> THEN <<>>
  ELSE IF ParameterErrors(Head(parameters), values[Head(parameters).name]) # <<>>
    THEN ParameterErrors(Head(parameters), values[Head(parameters).name])
  ELSE CollectErrors_FailFast(Tail(parameters), values)

\* The loop of validateParameterValues: the errors array after it.
RECURSIVE CollectErrors(_, _)
CollectErrors(parameters, values) ==
  IF parameters = <<>> THEN <<>>
  ELSE ParameterErrors(Head(parameters), values[Head(parameters).name])
       \o CollectErrors(Tail(parameters), values)

\* Faulty variant of validateParameterValues: fail-fast.
validateParameterValues_FailFast(parameters, values) ==
  IF Len(CollectErrors_FailFast(parameters, values)) > 0
    THEN [success |-> FALSE, error |-> Join(CollectErrors_FailFast(parameters, values), ", "),
          data |-> Null]
    ELSE [success |-> TRUE, error |-> Null, data |-> values]

\* validateParameterValues(parameters, values)
validateParameterValues(parameters, values) ==
  IF Len(CollectErrors(parameters, values)) > 0
    THEN [success |-> FALSE, error |-> Join(CollectErrors(parameters, values), ", "),
          data |-> Null]
    ELSE [success |-> TRUE, error |-> Null, data |-> values]

\* ---- validateActionMetadata and validateTransactionResponse

\* Documents handed to validateActionMetadata: as MetadataDocs, and a missing
\* title is Null.
BadButton == [label |-> "Tip 1 MNT", value |-> "buy", type |-> "link"]
MetadataInputs ==
  [ title : {Null, "", "Tip"},
    icon : {"https://app.example/icon.png", "icon.png"},
    description : {"Send a tip"},
    actions : {None, Some(<<>>), Some(<<LegacyButton>>), Some(<<BadButton>>),
               Some(<<[LegacyButton EXCEPT !.label = ""]>>)},
    links : {None, Some([actions |-> <<>>]), Some([actions |-> <<LinkedTip>>]),
             Some([actions |-> <<[LinkedTip EXCEPT !.href = ""]>>])} ]

ResponseInputs ==
  [ transaction : {None, Some(TxA), Some(TxBad)},
    transactions : {None, Some(<<>>), Some(<<TxA>>), Some(<<TxA, TxB>>),
                    Some(<<TxA, TxBad>>)} ]

\* ---- encodeURIComponent, decodeURIComponent, URLSearchParams

\* encodeURIComponent: the escapes of the characters it does not leave alone.
\* Every other character of the alphabets below is a letter, a digit or '.'.
PercentCode ==
  ("{" :> <<"7", "B">>) @@ ("}" :> <<"7", "D">>) @@ ("," :> <<"2", "C">>) @@
  (" " :> <<"2", "0">>) @@ ("/" :> <<"2", "F">>) @@ (":" :> <<"3", "A">>) @@
  ("?" :> <<"3", "F">>) @@ ("=" :> <<"3", "D">>) @@ ("%" :> <<"2", "5">>)

RECURSIVE encodeURIComponent(_)
encodeURIComponent(s) ==
  IF s = <<>> THEN <<>>
  ELSE (IF Head(s) \in DOMAIN PercentCode THEN <<"%">> \o PercentCode[Head(s)]
        ELSE <<Head(s)>>)
       \o encodeURIComponent(Tail(s))

\* The character a %XX escape stands for: the inverse of PercentCode, and the
\* escapes that the digits of UrlChars can spell.
EscapedChar(h1, h2) ==
  IF \E c \in DOMAIN PercentCode : PercentCode[c] = <<h1, h2>>
    THEN CHOOSE c \in DOMAIN PercentCode : PercentCode[c] = <<h1, h2>>
  ELSE IF <<h1, h2>> = <<"4", "1">> THEN "A"
  ELSE IF <<h1, h2>> = <<"4", "4">> THEN "D"
  ELSE IF <<h1, h2>> = <<"1", "1">> THEN "<DC1>"
  ELSE IF <<h1, h2>> = <<"1", "4">> THEN "<DC4>"
  ELSE "<other>"

IsEscapeAt(s) == Len(s) >= 3 /\ s[1] = "%" /\ s[2] \in HexDigits /\ s[3] \in HexDigits

\* decodeURIComponent: every %XX is decoded, a '%' that starts no escape
\* throws a URIError ([ok |-> FALSE]).
RECURSIVE decodeURIComponent(_)
decodeURIComponent(s) ==
  IF s = <<>> THEN [ok |-> TRUE, text |-> <<>>]
  ELSE IF Head(s) = "%"
    THEN IF IsEscapeAt(s)
           THEN LET rest == decodeURIComponent(Drop(s, 4))
                IN [ok |-> rest.ok, text |-> <<EscapedChar(s[2], s[3])>> \o rest.text]
           ELSE [ok |-> FALSE, text |-> <<>>]
  ELSE LET rest == decodeURIComponent(Tail(s))
       IN [ok |-> rest.ok, text |-> <<Head(s)>> \o rest.text]

\* The decoding URLSearchParams applies to a name or a value: '+' is a space,
\* %XX is decoded, any other '%' stays.
RECURSIVE FormDecode(_)
FormDecode(s) ==
  IF s = <<>> THEN <<>>
  ELSE IF IsEscapeAt(s) THEN <<EscapedChar(s[2], s[3])>> \o FormDecode(Drop(s, 4))
  ELSE IF Head(s) = "+" THEN <<" ">> \o FormDecode(Tail(s))
  ELSE <<Head(s)>> \o FormDecode(Tail(s))

\* The first position of character c in s, 0 if there is none.
IndexOf(s, c) ==
  IF \E i \in 1..Len(s) : s[i] = c
    THEN CHOOSE i \in 1..Len(s) : s[i] = c /\ \A j \in 1..(i - 1) : s[j] # c
    ELSE 0

HasPrefix(s, p) == Len(s) >= Len(p) /\ SubSeq(s, 1, Len(p)) = p

\* url.searchParams.get(name) on the query string `query`.
RECURSIVE SearchParamsGet(_, _)
SearchParamsGet(query, name) ==
  IF query = <<>> THEN None
  ELSE LET amp == IndexOf(query, "&")
           pair == IF amp = 0 THEN query ELSE SubSeq(query, 1, amp - 1)
           rest == IF amp = 0 THEN <<>> ELSE Drop(query, amp + 1)
           eq == IndexOf(pair, "=")
           n == IF eq = 0 THEN pair ELSE SubSeq(pair, 1, eq - 1)
           v == IF eq = 0 THEN <<>> ELSE Drop(pair, eq + 1)
       IN IF pair # <<>> /\ FormDecode(n) = name THEN Some(FormDecode(v))
          ELSE SearchParamsGet(rest, name)

\* ---- buildHref

TemplateChars == {"{", "}", "a"}
MaxTemplateLen == 6

RECURSIVE SeqsUpTo(_, _)
SeqsUpTo(S, n) ==
  IF n = 0 THEN {<<>>}
  ELSE SeqsUpTo(S, n - 1) \cup {Append(s, c) : s \in {t \in SeqsUpTo(S, n - 1) : Len(t) = n - 1}, c \in S}

Templates == SeqsUpTo(TemplateChars, MaxTemplateLen)

\* Keys and values of the `params` record; Object.entries yields them in
\* insertion order.
HrefKeys == {<<"a">>, <<"b">>, <<".">>}
HrefValues == {Str(<<"{", "a", "}">>), Arr(<<<<"1">>, <<"2">>>>)}
HrefEntry == [key : HrefKeys, value : HrefValues]
HrefParams ==
  {<<>>} \cup {<<e>> : e \in HrefEntry}
         \cup {p \in {<<e, f>> : e \in HrefEntry, f \in HrefEntry} : p[1].key # p[2].key}

\* value.join(',')
RECURSIVE JoinChars(_)
JoinChars(items) ==
  IF items = <<>> THEN <<>>
  ELSE IF Len(items) = 1 THEN items[1]
  ELSE items[1] \o <<",">> \o JoinChars(Tail(items))

\* Array.isArray(value) ? value.join(',') : value
Replacement(value) == IF value.kind = "array" THEN JoinChars(value.items) ELSE value.text

\* new RegExp(pattern) matches at the start of s. The pattern is
\* '{' + key + '}': '.' matches any character, every other character of
\* HrefKeys and a brace that opens no quantifier match themselves.
MatchesAtStart(pattern, s) ==
  /\ Len(s) >= Len(pattern)
  /\ \A i \in 1..Len(pattern) : pattern[i] = "." \/ pattern[i] = s[i]

\* s.replace(new RegExp(pattern, 'g'), replacement), the replacement holding
\* no '$'.
RECURSIVE ReplaceAll(_, _, _)
ReplaceAll(s, pattern, replacement) ==
  IF s = <<>> THEN <<>>
  ELSE IF MatchesAtStart(pattern, s)
    THEN replacement \o ReplaceAll(Drop(s, Len(pattern) + 1), pattern, replacement)
  ELSE <<Head(s)>> \o ReplaceAll(Tail(s), pattern, replacement)

\* buildHref(template, params): the loop over Object.entries(params).
RECURSIVE buildHref(_, _)
buildHref(template, params) ==
  IF params = <<>> THEN template
  ELSE buildHref(ReplaceAll(template, <<"{">> \o Head(params).key \o <<"}">>,
                            encodeURIComponent(Replacement(Head(params).value))),
                 Tail(params))

\* ---- createBlinkUrl and parseBlinkUrl

BLINK_BASE_URL == <<"h", "t", "t", "p", "s", ":", "/", "/", "b", "l", "i", "n", "k", ".", "m", "a", "n", "t", "l", "e", ".", "x", "y", "z">>
ACTION_QUERY_PARAM == <<"a", "c", "t", "i", "o", "n">>
BlinkPath == <<"/", "b", "l", "i", "n", "k", "?">>

\* Action URLs: an origin followed by a tail, and the tail alone (no URL).
Origin == <<"h", "t", "t", "p", "s", ":", "/", "/", "a", ".", "c", "o", "/">>
UrlChars == {"%", "4", "1", "p", "?"}
MaxUrlTail == 3
ActionUrls ==
  {Origin \o t : t \in SeqsUpTo(UrlChars, MaxUrlTail)}
    \cup {<<"/">> \o t : t \in SeqsUpTo(UrlChars, MaxUrlTail)}

\* new URL(s) does not throw: s is absolute. Every URL of the model that has
\* the https scheme has a host.
IsUrl(s) == HasPrefix(s, <<"h", "t", "t", "p", "s", ":", "/", "/">>) /\ Len(s) > 8

\* createBlinkUrl(actionUrl) with the default baseUrl.
createBlinkUrl(actionUrl) ==
  IF ~IsUrl(actionUrl) THEN [threw |-> TRUE, url |-> <<>>]
  ELSE [threw |-> FALSE,
        url |-> BLINK_BASE_URL \o BlinkPath \o ACTION_QUERY_PARAM \o <<"=">>
                  \o encodeURIComponent(actionUrl)]

\* The query of a URL without fragment: what follows the first '?'.
QueryOf(s) == IF IndexOf(s, "?") = 0 THEN <<>> ELSE Drop(s, IndexOf(s, "?") + 1)

\* parseBlinkUrl(blinkUrl): None stands for null.
parseBlinkUrl(blinkUrl) ==
  IF ~IsUrl(blinkUrl) THEN None
  ELSE LET actionParam == SearchParamsGet(QueryOf(blinkUrl), ACTION_QUERY_PARAM)
       IN IF actionParam = None \/ actionParam[1] = <<>> THEN None
          ELSE LET actionUrl == decodeURIComponent(actionParam[1])
               IN IF ~actionUrl.ok THEN None
                  ELSE IF ~IsUrl(actionUrl.text) THEN None
                  ELSE Some(actionUrl.text)

\* ---- the calls

MaxParams == 2

ParameterLists == SeqsUpTo(ParameterKinds, MaxParams)

DefaultCall == [fn |-> "none", args |-> <<>>]
NoResult == <<>>

\* One call of one exported function, or none.
InitLib ==
  /\ \/ call = DefaultCall
     \/ \E ps \in ParameterLists, vs \in [ParameterNames -> ParameterValues] :
          call = [fn |-> "validateParameterValues", args |-> [parameters |-> ps, values |-> vs]]
     \/ \E doc \in MetadataInputs : call = [fn |-> "validateActionMetadata", args |-> doc]
     \/ \E body \in ResponseInputs : call = [fn |-> "validateTransactionResponse", args |-> body]
     \/ \E t \in Templates, ps \in HrefParams :
          call = [fn |-> "buildHref", args |-> [template |-> t, params |-> ps]]
     \/ \E u \in ActionUrls : call = [fn |-> "createBlinkUrl", args |-> u]
  /\ result = NoResult

ValidateParameterValues ==
  /\ call.fn = "validateParameterValues"
  /\ result = NoResult
  /\ result' = Some(validateParameterValues(call.args.parameters, call.args.values))
  /\ UNCHANGED <<call, execVars, mlinkVars, serverVars, formVars>>

\* validateActionMetadata(data): `issues` are the messages of the ZodError, in
\* order, `error` its message.
ValidateActionMetadata ==
  /\ call.fn = "validateActionMetadata"
  /\ result = NoResult
  /\ result' = Some([success |-> validateActionMetadata(call.args),
                     issues |-> ActionMetadataIssues(call.args),
                     error |-> Join(ActionMetadataIssues(call.args), "; ")])
  /\ UNCHANGED <<call, execVars, mlinkVars, serverVars, formVars>>

ValidateTransactionResponse ==
  /\ call.fn = "validateTransactionResponse"
  /\ result = NoResult
  /\ result' = Some([success |-> validateTransactionResponse(call.args)])
  /\ UNCHANGED <<call, execVars, mlinkVars, serverVars, formVars>>

BuildHref ==
  /\ call.fn = "buildHref"
  /\ result = NoResult
  /\ result' = Some(buildHref(call.args.template, call.args.params))
  /\ UNCHANGED <<call, execVars, mlinkVars, serverVars, formVars>>

CreateBlinkUrl ==
  /\ call.fn = "createBlinkUrl"
  /\ result = NoResult
  /\ result' = Some([blink |-> createBlinkUrl(call.args), parsed |-> None, stage |-> "created"])
  /\ UNCHANGED <<call, execVars, mlinkVars, serverVars, formVars>>

\* parseBlinkUrl applied to the URL createBlinkUrl returned.
ParseBlinkUrl ==
  /\ call.fn = "createBlinkUrl"
  /\ result # NoResult
  /\ result[1].stage = "created"
  /\ ~result[1].blink.threw
  /\ result' = Some([result[1] EXCEPT !.parsed = parseBlinkUrl(result[1].blink.url),
                                      !.stage = "parsed"])
  /\ UNCHANGED <<call, execVars, mlinkVars, serverVars, formVars>>

NextLib ==
  \/ ValidateParameterValues
  \/ ValidateActionMetadata
  \/ ValidateTransactionResponse
  \/ BuildHref
  \/ CreateBlinkUrl
  \/ ParseBlinkUrl

\* ------------------------------------------------ the Mlink component

MaxSubmits == 1

\* The metadata the component renders: a quick action, '/q', and two actions
\* with parameters, '/t?a={amount}&to={to}' and '/s?to={to}'. `options` is
\* empty for a parameter that is not selectable.
FormMetadata ==
  LET TipAmount == [options |-> <<>>] @@ AmountParam
      TipRecipient ==
        [options |-> <<>>] @@
        [AmountParam EXCEPT !.name = "to", !.label = "Recipient", !.type = "address",
                            !.pattern = "^0x", !.min = None, !.max = None]
      TokenChoice ==
        [options |-> << [label |-> "USDC", value |-> <<"x">>, selected |-> FALSE],
                        [label |-> "MNT", value |-> <<"5">>, selected |-> TRUE] >>] @@
        [AmountParam EXCEPT !.name = "to", !.label = "Token", !.required = FALSE,
                            !.type = "select", !.pattern = Null, !.min = None, !.max = None]
      QuickTip == [href |-> <<"/", "q">>, label |-> "Tip 1 MNT", parameters |-> <<>>]
      CustomTip ==
        [href |-> <<"/", "t", "?", "a", "=", "{", "a", "m", "o", "u", "n", "t", "}",
                    "&", "t", "o", "=", "{", "t", "o", "}">>,
         label |-> "Custom tip", parameters |-> <<TipAmount, TipRecipient>>]
      Swap == [href |-> <<"/", "s", "?", "t", "o", "=", "{", "t", "o", "}">>,
               label |-> "Swap", parameters |-> <<TokenChoice>>]
  IN [TipDoc EXCEPT !.links = Some([actions |-> <<QuickTip, CustomTip, Swap>>])]

\* What the inputs of the form hand to onChange.
FormValues == {Str(<<>>), Str(<<"5">>), Str(<<"x">>), Str(<<"0", "x", "a", "1">>)}

hasParameters(action) == Len(action.parameters) > 0

isSelectableParam(param) == param.type \in {"select", "radio", "checkbox"}

\* A Record<string, string | string[]> is a list of entries in insertion
\* order. ({...prev, [name]: value}) keeps the place of a key it already has.
PutValue(entries, name, value) ==
  IF \E i \in 1..Len(entries) : entries[i].key = name
    THEN [i \in 1..Len(entries) |->
            IF entries[i].key = name THEN [key |-> name, value |-> value] ELSE entries[i]]
    ELSE Append(entries, [key |-> name, value |-> value])

\* The record as validateParameterValues reads it: values[name], undefined
\* for a key it does not have.
AsRecord(entries) ==
  [n \in ParameterNames |->
     IF \E i \in 1..Len(entries) : entries[i].key = n
       THEN entries[CHOOSE i \in 1..Len(entries) : entries[i].key = n].value
       ELSE Undefined]

\* Object.entries(paramValues), as buildHref reads it: the keys character by
\* character.
HrefEntries(entries) ==
  [i \in 1..Len(entries) |->
     [key |-> IF entries[i].key = "amount" THEN <<"a", "m", "o", "u", "n", "t">>
              ELSE <<"t", "o">>,
      value |-> entries[i].value]]

\* Lines 86-95: the defaults of the selectable parameters that have a
\* selected option.
RECURSIVE DefaultValues(_)
DefaultValues(parameters) ==
  IF parameters = <<>> THEN <<>>
  ELSE LET param == Head(parameters)
           chosen == {i \in 1..Len(param.options) : param.options[i].selected}
           first == CHOOSE i \in chosen : \A j \in chosen : i <= j
       IN (IF isSelectableParam(param) /\ chosen # {}
             THEN <<[key |-> param.name,
                     value |-> IF param.type = "checkbox"
                                 THEN Arr(<<param.options[first].value>>)
                                 ELSE Str(param.options[first].value)]>>
             ELSE <<>>)
          \o DefaultValues(Tail(parameters))

\* The component with its metadata loaded, nothing selected and nothing
\* submitted.
InitForm ==
  /\ selectedLinkedAction = None
  /\ paramValues = <<>>
  /\ executeCalls = <<>>

\* The buttons and the form are on screen and enabled: the success screen
\* replaces them (lines 167-177), and they are disabled while an execute is
\* in flight (lines 199-215, 256, 271).
CanClick ==
  /\ metadata # None
  /\ ~(status = "success" /\ txHash # Null)
  /\ status # "executing"

\* execute(action, input, data) up to its first await, as the component
\* observes it (useExecuteMlink.ts lines 52-54).
ExecuteCalled(action, data) ==
  /\ Len(executeCalls) < MaxSubmits
  /\ executeCalls' = Append(executeCalls, [action |-> action, input |-> Null, data |-> data])
  /\ status' = "executing"
  /\ error' = Null
  /\ txHash' = Null

\* handleLinkedAction(action) (lines 80-102).
HandleLinkedAction(action) ==
  /\ CanClick
  /\ selectedLinkedAction = None
  /\ IF hasParameters(action)
       THEN /\ selectedLinkedAction' = Some(action)
            /\ paramValues' = DefaultValues(action.parameters)
            /\ UNCHANGED <<executeCalls, status, error, txHash>>
       ELSE /\ ExecuteCalled(action.href, <<>>)
            /\ UNCHANGED <<selectedLinkedAction, paramValues>>
  /\ UNCHANGED <<execs, wallet, mlinkVars, serverVars, libVars>>

\* handleParamChange(name, value) (lines 66-68), from an input of the form.
HandleParamChange(name, value) ==
  /\ CanClick
  /\ selectedLinkedAction # None
  /\ \E i \in 1..Len(selectedLinkedAction[1].parameters) :
       selectedLinkedAction[1].parameters[i].name = name
  /\ paramValues' = PutValue(paramValues, name, value)
  /\ UNCHANGED <<selectedLinkedAction, executeCalls, execVars, mlinkVars, serverVars, libVars>>

\* handleExecuteWithParams up to its await (lines 105-111).
HandleExecuteWithParams ==
  /\ CanClick
  /\ selectedLinkedAction # None
  /\ ExecuteCalled(buildHref(selectedLinkedAction[1].href, HrefEntries(paramValues)),
                   paramValues)
  /\ UNCHANGED <<selectedLinkedAction, paramValues, execs, wallet, mlinkVars, serverVars,
                 libVars>>

\* handleCancelParams (lines 117-120).
HandleCancelParams ==
  /\ CanClick
  /\ selectedLinkedAction # None
  /\ selectedLinkedAction' = None
  /\ paramValues' = <<>>
  /\ UNCHANGED <<executeCalls, execVars, mlinkVars, serverVars, libVars>>

\* The awaited execute returns, successfully or not; handleExecuteWithParams
\* then clears the form (lines 112-113).
ExecuteReturns(ok) ==
  /\ status = "executing"
  /\ IF ok
       THEN status' = "success" /\ txHash' = HashOf(TxA) /\ UNCHANGED error
       ELSE status' = "error" /\ error' = "Transaction failed" /\ UNCHANGED txHash
  /\ selectedLinkedAction' = None
  /\ paramValues' = <<>>
  /\ UNCHANGED <<executeCalls, execs, wallet, mlinkVars, serverVars, libVars>>

\* The button of the success screen: onReset={reset}.
ResetClicked ==
  /\ status = "success" /\ txHash # Null
  /\ Reset

NextForm ==
  \/ \E i \in 1..Len(metadata[1].links[1].actions) :
       HandleLinkedAction(metadata[1].links[1].actions[i])
  \/ \E name \in ParameterNames, value \in FormValues : HandleParamChange(name, value)
  \/ HandleExecuteWithParams
  \/ HandleCancelParams
  \/ \E ok \in BOOLEAN : ExecuteReturns(ok)
  \/ ResetClicked

\* ------------------------------------------------------- specifications

Init == InitExec /\ InitMlink /\ InitServer /\ InitLib /\ InitForm

Next == NextExec

\* useMlink(url) as the Mlink component calls it: a url, and the defaults of
\* lines 123-124.
DefaultProps == [url |-> "https://app.example/api/tip", enabled |-> TRUE,
                 refreshInterval |-> 600000]

\* The definition of the served action, and the wallet of its user.
TipDefinition == [title |-> "Tip", icon |-> "https://app.example/icon.png",
                  description |-> "Send a tip", actions |-> Some(<<LegacyButton>>),
                  links |-> None, handler |-> "function"]
ConnectedWallet == [connected |-> TRUE, address |-> "0xc3"]

\* Each part of the program before anything is asked of it: the hooks of a
\* rendered action whose wallet is connected, the served Tip action, and no
\* library call.
ExecAtRest == InitExec /\ wallet = ConnectedWallet
MlinkAtRest == InitMlink /\ props = DefaultProps
ServerAtRest == definition = TipDefinition /\ InitServer
LibAtRest == call = DefaultCall /\ result = NoResult

\* The execution hook of one rendered action, its caller and its wallet.
InitExecuting == InitExec /\ MlinkAtRest /\ ServerAtRest /\ LibAtRest /\ InitForm
Spec == InitExecuting /\ [][Next]_vars

\* The metadata hook of one rendered action, its renders and its server.
InitFetching == ExecAtRest /\ InitMlink /\ ServerAtRest /\ LibAtRest /\ InitForm
SpecMlink == InitFetching /\ [][NextMlink]_vars

\* Any step of fetch f: a request in flight is answered, fails or, once
\* cancelled, rejects.
FetchProgress(f) ==
  \/ FetchAborted(f)
  \/ FetchNetworkFail(f)
  \/ \E ok \in BOOLEAN : FetchRespond(f, ok)
  \/ FetchUnparseable(f)
  \/ \E doc \in MetadataDocs : FetchBody(f, doc)

\* The metadata hook when the network answers: no awaited fetch or body read
\* stays pending forever. Renders, refreshes and the unmount are up to the
\* consumer and carry no fairness.
SpecMlinkFair == SpecMlink /\ \A f \in FetchIds : WF_vars(FetchProgress(f))

\* One definition handed to createAction and one request served by the
\* action, directly or through an adapter.
InitServing == ExecAtRest /\ MlinkAtRest /\ InitServer /\ LibAtRest /\ InitForm
SpecServer == InitServing /\ [][NextServer]_vars

\* One call of a pure function of validators, builders or utils.
InitCalling ==
  ExecAtRest /\ MlinkAtRest /\ ServerAtRest /\ InitLib /\ call # DefaultCall /\ InitForm
SpecLib == InitCalling /\ [][NextLib]_vars

\* The useMlink hook of the component after its first fetch stored the
\* metadata.
MlinkLoaded ==
  /\ mStatus = "ready"
  /\ metadata = Some(FormMetadata)
  /\ mError = Null
  /\ abortControllerRef = 1
  /\ intervalRef = TRUE
  /\ fetches = [f \in FetchIds |-> IF f = 1 THEN [pc |-> "done", aborted |-> FALSE]
                                            ELSE [pc |-> "unused", aborted |-> FALSE]]
  /\ props = DefaultProps
  /\ mounted = "yes"

\* The Mlink component with its metadata loaded: its buttons, its parameter
\* form and the executes they start.
InitRendered == ExecAtRest /\ MlinkLoaded /\ ServerAtRest /\ LibAtRest /\ InitForm
SpecForm == InitRendered /\ [][NextForm]_vars

\* ------------------------------------------------------------- claims

Started(e) == execs[e].pc # "idle"
Settles(e) == execs[e].pc # "done" /\ execs'[e].pc = "done"
DoneFramesFrozen == \A e \in ExecIds : execs[e].pc = "done" => execs'[e] = execs[e]

\* C1: the descriptors of one execute are handed to signAndSendTransaction one
\* at a time in response order: call i+1 exists only once call i has returned
\* its hash, and at most one sign call of an execute is in flight.
C1_SequentialSigning ==
  \A e \in ExecIds :
    LET calls == execs[e].calls IN
    /\ Len(calls) <= Len(execs[e].txs)
    /\ \A i \in 1..Len(calls) : calls[i].tx = execs[e].txs[i]
    /\ \A i \in 1..Len(calls) :
         i < Len(calls) => calls[i].outcome = "returned" /\ calls[i].hash # Null
    /\ Cardinality({i \in 1..Len(calls) : calls[i].outcome = "pending"}) <= 1

\* C1 witness: the second descriptor is with the wallet after the first one
\* returned its hash.
C1_Witness ==
  \E e \in ExecIds :
    /\ Len(execs[e].calls) = 2
    /\ execs[e].calls[1].outcome = "returned"
    /\ execs[e].calls[2].outcome = "pending"

\* The sign call of execute e that was rejected, 0 when there is none.
FailedCall(rec) ==
  IF \E k \in 1..Len(rec.calls) : rec.calls[k].outcome = "failed"
    THEN CHOOSE k \in 1..Len(rec.calls) : rec.calls[k].outcome = "failed"
    ELSE 0

\* C2 as stated: when signAndSendTransaction fails on descriptor k, no later
\* descriptor is ever handed over, and the execute ends with status 'error'
\* and error equal to the message of the failure.
C2_ErrorIsFailureMessage ==
  [][/\ DoneFramesFrozen
     /\ \A e \in ExecIds :
          (Settles(e) /\ FailedCall(execs'[e]) # 0) =>
            /\ Len(execs'[e].calls) = FailedCall(execs'[e])
            /\ status' = "error"
            /\ error' = execs'[e].thrown[1].message]_vars

\* C2 amended: as C2, with error equal to the failure's message when the
\* failure is an Error and to 'Transaction failed' when it is any other value.
C2_FailureAbortsSequence ==
  [][/\ DoneFramesFrozen
     /\ \A e \in ExecIds :
          (Settles(e) /\ FailedCall(execs'[e]) # 0) =>
            /\ Len(execs'[e].calls) = FailedCall(execs'[e])
            /\ status' = "error"
            /\ execs'[e].thrown[1].isError => error' = execs'[e].thrown[1].message
            /\ ~execs'[e].thrown[1].isError => error' = "Transaction failed"]_vars

\* C2 witness: the first of two descriptors was rejected with a value that is
\* not an Error; the second was never handed over.
C2_Witness ==
  \E e \in ExecIds :
    /\ execs[e].pc = "done"
    /\ Len(execs[e].txs) = 2
    /\ Len(execs[e].calls) = 1
    /\ execs[e].calls[1].outcome = "failed"
    /\ ~execs[e].thrown[1].isError
    /\ status = "error"
    /\ error = "Transaction failed"

\* C3 as stated: with transactions [A, B], A sent and B rejected, the execute
\* settles in status 'error' with txHash equal to A's hash.
C3_LastHashRetained ==
  [][\A e \in ExecIds :
       (/\ Settles(e)
        /\ execs'[e].txs = <<TxA, TxB>>
        /\ Len(execs'[e].calls) = 2
        /\ execs'[e].calls[1].outcome = "returned"
        /\ execs'[e].calls[2].outcome = "failed") =>
         /\ status' = "error"
         /\ txHash' = execs'[e].calls[1].hash]_vars

\* C4 as stated: a response body that fails validateTransactionResponse makes
\* the execute fail, and none of its descriptors reaches signAndSendTransaction.
C4_InvalidResponseNeverSigned ==
  \A e \in ExecIds :
    (execs[e].body # None /\ ~validateTransactionResponse(execs[e].body[1])) =>
      /\ execs[e].calls = <<>>
      /\ execs[e].pc = "done"
      /\ execs[e].result # None
      /\ ~execs[e].result[1].success

\* C5: the executed sequence is the `transactions` list when present, else the
\* single `transaction` wrapped, else empty; an empty sequence fails the
\* execute with the no-transaction error and nothing is signed.
C5_Normalization ==
  \A e \in ExecIds :
    execs[e].body # None =>
      LET body == execs[e].body[1]
          txs == execs[e].txs IN
      /\ body.transactions # None => txs = body.transactions[1]
      /\ (body.transactions = None /\ body.transaction # None) => txs = <<body.transaction[1]>>
      /\ (body.transactions = None /\ body.transaction = None) => txs = <<>>
      /\ \A i \in 1..Len(execs[e].calls) : i <= Len(txs) /\ execs[e].calls[i].tx = txs[i]
      /\ txs = <<>> =>
           /\ execs[e].pc = "done"
           /\ execs[e].calls = <<>>
           /\ execs[e].result =
                Some([success |-> FALSE, value |-> "No transaction returned from action"])

\* C5 witness: both fields are present and differ, and the descriptor of the
\* list has been sent.
C5_Witness ==
  \E e \in ExecIds :
    /\ execs[e].body # None
    /\ execs[e].body[1].transaction # None
    /\ execs[e].body[1].transactions # None
    /\ Len(execs[e].calls) >= 1
    /\ execs[e].calls[1].outcome = "returned"
    /\ execs[e].calls[1].tx = execs[e].body[1].transactions[1][1]
    /\ execs[e].calls[1].tx # execs[e].body[1].transaction[1]

\* C6: connect() is invoked exactly when isConnected() is false or
\* getAddress() gives no address, and only at the start of an execute; a
\* failed connect ends the execute in 'error' with no POST and no sign call;
\* the account of the POST is the adapter's address, or what connect() returned.
C6_ConnectWhenNeeded ==
  [][\A e \in ExecIds :
       /\ (execs[e].pc = "idle" /\ execs'[e].pc # "idle") =>
            /\ execs'[e].connectCalled <=>
                 (~wallet.connected \/ wallet.address = Null \/ wallet.address = "")
            /\ execs'[e].connectCalled <=> execs'[e].pc = "connect"
            /\ execs'[e].connectCalled => ~execs'[e].posted
            /\ ~execs'[e].connectCalled =>
                 execs'[e].posted /\ execs'[e].account = wallet.address
       /\ Started(e) => execs'[e].connectCalled = execs[e].connectCalled
       /\ (execs[e].pc = "connect" /\ execs'[e].pc = "done") =>
            /\ status' = "error"
            /\ ~execs'[e].posted
            /\ execs'[e].calls = <<>>
       /\ (execs[e].pc = "connect" /\ execs'[e].pc # "done" /\ execs'[e] # execs[e]) =>
            /\ execs'[e].posted
            /\ execs'[e].account \in Accounts
       /\ execs[e].posted =>
            execs'[e].posted /\ execs'[e].account = execs[e].account]_vars

\* C6 witness: an execute whose connect() was invoked and failed has ended.
C6_Witness ==
  \E e \in ExecIds :
    /\ execs[e].connectCalled
    /\ execs[e].pc = "done"
    /\ ~execs[e].posted
    /\ execs[e].calls = <<>>
    /\ status = "error"

\* C7 as stated: on a non-success POST the execute ends in 'error', nothing is
\* signed, and the message is error.message of the payload when present,
\* otherwise 'HTTP <status>: <statusText>'.
C7_ServerMessageOrGeneric ==
  [][\A e \in ExecIds :
       (execs[e].pc = "errjson" /\ execs'[e].pc = "done") =>
         /\ status' = "error"
         /\ execs'[e].calls = <<>>
         /\ error' = IF execs'[e].errorData[1].errorMessage # Null
                       THEN execs'[e].errorData[1].errorMessage
                       ELSE HttpStatusMessage(execs'[e].http[1])]_vars

\* C7 amended: on a non-success POST the execute ends in 'error' and nothing
\* is signed; when the payload is a JSON object (an unparseable body counts as
\* {}), the message is its non-empty error.message, otherwise its non-empty
\* top-level message, otherwise 'HTTP <status>: <statusText>'.
C7_ServerMessageFallbacks ==
  [][\A e \in ExecIds :
       (execs[e].pc = "errjson" /\ execs'[e].pc = "done") =>
         LET errorData == execs'[e].errorData[1] IN
         /\ status' = "error"
         /\ execs'[e].calls = <<>>
         /\ errorData.kind = "object" =>
              error' = IF errorData.errorMessage \notin {Null, ""} THEN errorData.errorMessage
                       ELSE IF errorData.message \notin {Null, ""} THEN errorData.message
                       ELSE HttpStatusMessage(execs'[e].http[1])]_vars

\* C7 witness: a non-success POST whose payload has only a top-level message
\* ended the execute with that message.
C7_Witness ==
  \E e \in ExecIds :
    /\ execs[e].pc = "done"
    /\ execs[e].errorData # None
    /\ execs[e].errorData[1].errorMessage = Null
    /\ execs[e].errorData[1].message = "legacy message"
    /\ status = "error"
    /\ error = "legacy message"

\* C8: an execute that ends in 'success' has sent every descriptor, txHash is
\* the hash returned for the last one, and onSuccess gets that hash and the
\* action passed to execute; one that ends in 'error' gives onError the error
\* message stored in state.
C8_CallbacksOnSettle ==
  [][\A e \in ExecIds :
       Settles(e) =>
         LET calls == execs'[e].calls
             txs == execs'[e].txs IN
         /\ status' \in {"success", "error"}
         /\ status' = "success" =>
              /\ Len(txs) > 0
              /\ Len(calls) = Len(txs)
              /\ \A i \in 1..Len(calls) : calls[i].tx = txs[i] /\ calls[i].outcome = "returned"
              /\ txHash' = calls[Len(calls)].hash
              /\ execs'[e].callback = Some(<<"onSuccess", calls[Len(calls)].hash, ActionArg(e)>>)
         /\ status' = "error" =>
              /\ error' # Null
              /\ execs'[e].callback = Some(<<"onError", error'>>)]_vars

\* C8 witness: an execute of two descriptors ended in 'success' with the hash
\* of the second.
C8_Witness ==
  \E e \in ExecIds :
    /\ execs[e].pc = "done"
    /\ Len(execs[e].calls) = 2
    /\ status = "success"
    /\ txHash = execs[e].calls[2].hash
    /\ txHash # execs[e].calls[1].hash
    /\ execs[e].callback = Some(<<"onSuccess", txHash, ActionArg(e)>>)

\* C9: the step from 'success' or 'error' back to 'ready' clears txHash and
\* error and touches nothing else: no execute frame (no POST, no wallet call),
\* no wallet state and nothing of useMlink changes.
C9_ResetFrame ==
  [][(status \in {"success", "error"} /\ status' = "ready") =>
       /\ txHash' = Null
       /\ error' = Null
       /\ execs' = execs
       /\ wallet' = wallet
       /\ UNCHANGED mlinkVars]_vars

\* C9 witness: after an execute ended, reset() has put the hook back to
\* 'ready' with nothing in flight.
C9_Witness ==
  /\ status = "ready"
  /\ txHash = Null
  /\ error = Null
  /\ \E e \in ExecIds : execs[e].pc = "done"
  /\ \A e \in ExecIds : execs[e].pc \in {"done", "idle"}

\* C10: at most one metadata fetch is outstanding and not aborted, and it is
\* the one whose controller abortControllerRef holds.
C10_AtMostOneLiveFetch ==
  /\ Cardinality({f \in FetchIds : InFlight(f) /\ ~fetches[f].aborted}) <= 1
  /\ \A f \in FetchIds : (InFlight(f) /\ ~fetches[f].aborted) => abortControllerRef = f

\* C10 witness: a newer fetch is outstanding while the one it superseded,
\* aborted, has not settled yet.
C10_Witness ==
  \E f, g \in FetchIds :
    /\ f < g
    /\ InFlight(f) /\ fetches[f].aborted
    /\ InFlight(g) /\ ~fetches[g].aborted

\* C11: a metadata fetch whose controller was aborted can only settle, and
\* the step in which it settles changes neither status nor metadata nor error.
C11_CancelledFetchSilent ==
  [][\A f \in FetchIds :
       (fetches[f].aborted /\ fetches'[f].pc # fetches[f].pc) =>
         /\ fetches'[f].pc = "done"
         /\ UNCHANGED <<mStatus, metadata, mError>>]_vars

\* C11 witness: a superseded fetch has settled while the fetch that replaced
\* it is still loading.
C11_Witness ==
  \E f, g \in FetchIds :
    /\ f < g
    /\ fetches[f].aborted /\ fetches[f].pc = "done"
    /\ InFlight(g) /\ ~fetches[g].aborted
    /\ abortControllerRef = g
    /\ mStatus = "loading" /\ mError = Null

\* The request the frame carries satisfies TransactionRequestSchema: an
\* address as account and a non-empty action.
SchemaValid(r) == r.account \in {"0xa1", "0xb2", "0xc3"} /\ r.action # Null /\ r.action # ""

\* Entry i of the legacy list is the one the request selects: the first whose
\* value equals request.action, an input entry also answering to '__input__'.
Selects(r, i) ==
  LET l == definition.actions[1]
      hit(j) == l[j].value = r.action \/ (l[j].type = "input" /\ r.action = "__input__")
  IN hit(i) /\ \A j \in 1..(i - 1) : ~hit(j)

\* The request selects an input entry and carries no input.
InputMissing(r) ==
  /\ definition.actions # None
  /\ \E i \in 1..Len(definition.actions[1]) :
       Selects(r, i) /\ definition.actions[1][i].type = "input"
  /\ r.input \in {Null, ""}

Rejected(message) == Some([rejected |-> TRUE, value |-> [isError |-> TRUE, message |-> message]])

\* C12: action.handleRequest calls the handler only for a schema-valid request
\* that does not select an input entry without input; a schema-invalid request
\* is rejected with the validation message, an input entry without input with
\* 'Input value is required', and the handler is then not called.
C12_HandlerOnlyForAcceptedRequests ==
  post.handled =>
    /\ handlerCalls # <<>> => (SchemaValid(post.request) /\ ~InputMissing(post.request))
    /\ ~SchemaValid(post.request) =>
         /\ handlerCalls = <<>>
         /\ post.pc = "done"
         /\ post.outcome = Rejected(validateTransactionRequest(post.request).error)
    /\ (SchemaValid(post.request) /\ InputMissing(post.request)) =>
         /\ handlerCalls = <<>>
         /\ post.pc = "done"
         /\ post.outcome = Rejected("Input value is required")
    /\ (SchemaValid(post.request) /\ ~InputMissing(post.request)) =>
         handlerCalls = <<HandlerContext(post.request)>>

\* C12 witness: a direct call that selects the input entry of a two-entry
\* list with an empty input was rejected without a handler call.
C12_Witness ==
  /\ post.via = "direct" /\ post.pc = "done"
  /\ definition.actions = Some(<<LegacyButton, InputEntry>>)
  /\ post.request.action = "__input__" /\ post.request.input = ""
  /\ post.outcome = Rejected("Input value is required")
  /\ handlerCalls = <<>>

\* C13: with legacy actions defined, a schema-valid request whose action
\* matches no legacy entry is rejected and never reaches the handler.
C13_UnmatchedActionRejected ==
  ( /\ post.handled
    /\ definition.actions # None
    /\ Len(definition.actions[1]) > 0
    /\ SchemaValid(post.request)
    /\ \A i \in 1..Len(definition.actions[1]) : ~Selects(post.request, i) ) =>
      /\ handlerCalls = <<>>
      /\ post.pc = "done"
      /\ post.outcome # None /\ post.outcome[1].rejected

\* The definition has a non-empty `actions` list or a non-empty links.actions.
HasAnyAction(def) ==
  \/ def.actions \notin {None, Some(<<>>)}
  \/ def.links \notin {None, Some([actions |-> <<>>])}

\* C14: createAction throws, with a message, exactly for a definition whose
\* title, icon or description is missing or empty, that has neither a
\* non-empty actions list nor a non-empty links.actions list, or whose handler
\* is not a function; no handler call happens before a request is served.
C14_EagerDefinitionCheck ==
  built.state # "none" =>
    /\ built.state = "threw" <=>
         \/ definition.title \in {Null, ""}
         \/ definition.icon \in {Null, ""}
         \/ definition.description \in {Null, ""}
         \/ ~HasAnyAction(definition)
         \/ definition.handler # "function"
    /\ built.state = "threw" => (built.error # Null /\ built.error # "")
    /\ built.state = "created" => built.error = Null
    /\ post.pc = "idle" => handlerCalls = <<>>

\* C14 witness: a definition with an empty legacy list and one linked action
\* was accepted.
C14_Witness ==
  /\ built.state = "created"
  /\ definition.actions = Some(<<>>)
  /\ definition.links = Some([actions |-> <<LinkedTip>>])
  /\ handlerCalls = <<>>

\* C15: a POST served by an adapter has exactly one response: 400 with the
\* validation message and no call of handleRequest when the body fails the
\* schema, 500 with the failure's message when handleRequest was called and
\* rejected, 200 with the handler's response when it resolved.
C15_OneResponsePerPost ==
  (post.via \in {"express", "next"} /\ post.pc = "done") =>
    /\ Len(responses) = 1
    /\ responses[1].status \in {200, 400, 500}
    /\ responses[1].status = 400 =>
         /\ ~post.handled
         /\ ~SchemaValid(post.request)
         /\ responses[1].body = ErrorPayload(validateTransactionRequest(post.request).error)
    /\ responses[1].status = 500 =>
         /\ post.handled
         /\ post.outcome # None /\ post.outcome[1].rejected
         /\ responses[1].body = ErrorPayload(AdapterErrorMessage(post.outcome[1].value))
    /\ responses[1].status = 200 =>
         /\ post.handled
         /\ post.outcome # None /\ ~post.outcome[1].rejected
         /\ responses[1].body = post.outcome[1].value

\* The call of library function fn has returned.
Called(fn) == call.fn = fn /\ result # NoResult

\* The messages of parameters i, i+1, ... of the list, in that order.
RECURSIVE ErrorsFrom(_, _, _)
ErrorsFrom(ps, vs, i) ==
  IF i > Len(ps) THEN <<>>
  ELSE ParameterErrors(ps[i], vs[ps[i].name]) \o ErrorsFrom(ps, vs, i + 1)

AtLeastOneAction == "Must have at least one action or linked action"

\* Neither `actions` nor links.actions of the document holds an entry.
NoActionAtAll(doc) ==
  doc.actions \in {None, Some(<<>>)} /\ doc.links \in {None, Some([actions |-> <<>>])}

Reports(message) == \E i \in 1..Len(result[1].issues) : result[1].issues[i] = message

C18_ResponseNeedsTransaction ==
  Called("validateTransactionResponse") =>
    LET body == call.args
        populated == body.transactions # None /\ Len(body.transactions[1]) > 0
        wellFormed == /\ body.transaction # Some(TxBad)
                      /\ body.transactions # None =>
                           \A i \in 1..Len(body.transactions[1]) : body.transactions[1][i] # TxBad
    IN /\ (body.transaction = None /\ ~populated) => ~result[1].success
       /\ (wellFormed /\ (body.transaction # None \/ populated)) => result[1].success

\* C18 witness: a response with both `transaction` and a two-element
\* `transactions` was accepted.
C18_Witness ==
  /\ Called("validateTransactionResponse")
  /\ call.args = [transaction |-> Some(TxA), transactions |-> Some(<<TxA, TxB>>)]
  /\ result[1].success

\* The reference substitution: reading the template from the left, every
\* literal '{key}' of a supplied key becomes the percent-encoded value (an
\* array joined with ','), everything else stays.
RECURSIVE ReferenceSubstitution(_, _)
ReferenceSubstitution(template, params) ==
  LET here == {i \in 1..Len(params) :
                 HasPrefix(template, <<"{">> \o params[i].key \o <<"}">>)}
      e == params[CHOOSE i \in here : TRUE]
  IN IF template = <<>> THEN <<>>
     ELSE IF here # {}
       THEN encodeURIComponent(Replacement(e.value))
            \o ReferenceSubstitution(Drop(template, Len(e.key) + 3), params)
     ELSE <<Head(template)>> \o ReferenceSubstitution(Tail(template), params)

\* C19: buildHref(template, values) is the reference substitution.
C19_BuildHrefIsReference ==
  Called("buildHref") =>
    result[1] = ReferenceSubstitution(call.args.template, call.args.params)

\* Every '%' of u starts a %XX escape.
WellFormedUrl(u) ==
  /\ IsUrl(u)
  /\ \A i \in 1..Len(u) :
       u[i] = "%" => (i + 2 <= Len(u) /\ u[i + 1] \in HexDigits /\ u[i + 2] \in HexDigits)

\* C20: for a well-formed absolute URL u, createBlinkUrl(u) succeeds and
\* parseBlinkUrl of its result is u.
C20_BlinkRoundTrip ==
  (Called("createBlinkUrl") /\ WellFormedUrl(call.args)) =>
    /\ ~result[1].blink.threw
    /\ result[1].stage = "parsed" => result[1].parsed = Some(call.args)

\* The moves of the execution status the state diagram allows.
StatusMoves ==
  { <<"ready", "executing">>, <<"executing", "success">>, <<"executing", "error">>,
    <<"success", "ready">>, <<"error", "ready">> }

\* C21 as stated: the execution status only moves ready -> executing ->
\* success | error and success | error -> ready: 'executing' is entered only
\* from 'ready', 'success' and 'error' only from 'executing'.
C21_StatusFollowsDiagram ==
  [][status' # status => <<status, status'>> \in StatusMoves]_vars

\* The step issues a new metadata request: a controller is allocated and its
\* fetch is awaited.
StartsFetch ==
  /\ abortControllerRef' # abortControllerRef
  /\ fetches[abortControllerRef'].pc = "unused"
  /\ fetches'[abortControllerRef'].pc = "fetch"

\* C22 as stated: the metadata status enters 'loading' only from 'idle' or
\* 'ready', and leaves 'loading' only to 'ready' or 'error'.
C22_LoadingFromIdleOrReady ==
  [][/\ (mStatus # "loading" /\ mStatus' = "loading") => mStatus \in {"idle", "ready"}
     /\ (mStatus = "loading" /\ mStatus' # "loading") => mStatus' \in {"ready", "error"}]_vars

\* C22 amended: the metadata status enters 'loading' only in a step that
\* issues a new metadata request, from 'idle', 'ready' or 'error', and leaves
\* 'loading' only to 'ready' or 'error'.
C22_LoadingMoves ==
  [][/\ (mStatus # "loading" /\ mStatus' = "loading") =>
          mStatus \in {"idle", "ready", "error"} /\ StartsFetch
     /\ (mStatus = "loading" /\ mStatus' # "loading") => mStatus' \in {"ready", "error"}]_vars

\* C22 witness: the first request has ended, no metadata was ever stored, and
\* a second request has put the hook in 'loading' again.
C22_Witness ==
  /\ mStatus = "loading"
  /\ metadata = None
  /\ fetches[1].pc = "done"
  /\ InFlight(2) /\ ~fetches[2].aborted
  /\ abortControllerRef = 2

\* Fetch f, not cancelled, ends in this step while awaiting `at`: "fetch" for
\* the response, "json" for the body of a 2xx response.
FetchSettles(f, at) ==
  fetches[f].pc = at /\ ~fetches[f].aborted /\ fetches'[f].pc = "done"

\* C23: the status becomes 'ready' only when a fetch that was not cancelled
\* ends after a 2xx response whose body passes validateActionMetadata, and
\* metadata is then that body; a fetch that was not cancelled and ends any
\* other way (network failure, non-2xx status, unreadable or invalid body)
\* leaves the status 'error' with an error message and the metadata untouched.
C23_ReadyOnlyWhenValidated ==
  [][/\ (mStatus # "ready" /\ mStatus' = "ready") =>
          \E f \in FetchIds :
            /\ FetchSettles(f, "json")
            /\ metadata' # None
            /\ validateActionMetadata(metadata'[1])
     /\ \A f \in FetchIds :
          /\ FetchSettles(f, "fetch") =>
               mStatus' = "error" /\ mError' # Null /\ metadata' = metadata
          /\ FetchSettles(f, "json") =>
               \/ /\ mStatus' = "ready"
                  /\ metadata' # None
                  /\ validateActionMetadata(metadata'[1])
               \/ mStatus' = "error" /\ mError' # Null /\ metadata' = metadata]_vars

\* C23 witness: after a fetch stored valid metadata, a later fetch got a body
\* that failed validation: the status is 'error' and the message says so.
C23_Witness ==
  /\ mStatus = "error"
  /\ mError = "Invalid metadata: schema violation"
  /\ metadata # None
  /\ validateActionMetadata(metadata[1])

\* The value is absent, the empty string or an empty array.
NoValue(value) == value.kind = "undefined" \/ value = Str(<<>>) \/ value = Arr(<<>>)

\* What parameter i of the list contributes according to C24 when it has no
\* value; what the validator pushes for it otherwise.
RECURSIVE ContributionsFrom(_, _, _)
ContributionsFrom(ps, vs, i) ==
  IF i > Len(ps) THEN <<>>
  ELSE (IF NoValue(vs[ps[i].name])
          THEN (IF ps[i].required
                  THEN <<(IF ps[i].label \notin {Null, ""} THEN ps[i].label ELSE ps[i].name)
                           \o " is required">>
                  ELSE <<>>)
          ELSE ParameterErrors(ps[i], vs[ps[i].name]))
       \o ContributionsFrom(ps, vs, i + 1)

\* C24: in the result of validateParameterValues, a required parameter whose
\* value is absent, '' or [] accounts for exactly the one message '<label or
\* name> is required', and a non-required parameter without a value for no
\* message at all.
C24_MissingValues ==
  (Called("validateParameterValues")
     /\ \E i \in 1..Len(call.args.parameters) :
          NoValue(call.args.values[call.args.parameters[i].name])) =>
    LET expected == ContributionsFrom(call.args.parameters, call.args.values, 1)
    IN /\ result[1].success <=> expected = <<>>
       /\ ~result[1].success => result[1].error = Join(expected, ", ")

\* C24 witness: an optional parameter with '' and a required one with [] give
\* the single message of the required one.
C24_Witness ==
  /\ Called("validateParameterValues")
  /\ Len(call.args.parameters) = 2
  /\ ~call.args.parameters[1].required
  /\ call.args.values[call.args.parameters[1].name] = Str(<<>>)
  /\ call.args.parameters[2].required
  /\ call.args.values[call.args.parameters[2].name] = Arr(<<>>)
  /\ ~result[1].success
  /\ result[1].error = "Recipient is required"

\* C25 as stated: the component calls execute for a linked action with
\* parameters only with values that pass validateParameterValues for the
\* parameter list of that action.
C25_ValidatedBeforeExecute ==
  [][(Len(executeCalls') > Len(executeCalls) /\ selectedLinkedAction # None) =>
       validateParameterValues(selectedLinkedAction[1].parameters,
                               AsRecord(paramValues)).success]_vars

\* C26 as stated: whatever the interleaving of execute and reset, 'success'
\* comes with a txHash and no error, 'error' with an error and no txHash, and
\* 'ready' and 'executing' with neither.
C26_StatusMatchesFields ==
  /\ status = "success" => txHash # Null /\ error = Null
  /\ status = "error" => error # Null /\ txHash = Null
  /\ status \in {"ready", "executing"} => txHash = Null /\ error = Null

\* Execute e has been called and has not returned.
Executing(e) == execs[e].pc \notin {"idle", "done"}

\* C27 as stated: at most one execute of an instance is in flight; an execute
\* called while another is in flight issues no POST and hands nothing to the
\* wallet adapter.
C27_OneExecuteAtATime ==
  \A d, e \in ExecIds : (d # e /\ Executing(d)) => ~Executing(e)

\* C28 as stated: a response body that validateTransactionResponse accepts is
\* normalised by execute to a non-empty descriptor sequence, and the execute
\* does not fail with 'No transaction returned from action'.
C28_ValidResponseHasTransactions ==
  \A e \in ExecIds :
    (execs[e].body # None /\ validateTransactionResponse(execs[e].body[1])) =>
      /\ execs[e].txs # <<>>
      /\ execs[e].result #
           Some([success |-> FALSE, value |-> "No transaction returned from action"])

\* The messages of the two action-count rules of ActionMetadataSchema.
ActionCountMessages ==
  {"Must have at least one action or linked action", "Array must contain at least 1 element(s)"}

\* C29 as stated: the metadata of an action that createAction accepted breaks
\* neither the at-least-one-action refinement nor the non-empty links.actions
\* rule of validateActionMetadata.
C29_ServedMetadataHasActions ==
  built.state = "created" =>
    LET issues == ActionMetadataIssues(getMetadata(definition))
    IN \A i \in 1..Len(issues) : issues[i] \notin ActionCountMessages

\* C30 as stated: a mounted hook in 'loading' eventually is in 'ready' or
\* 'error' (or is unmounted), whatever the refreshes and the changes of url
\* and `enabled`, when every fetch eventually settles.
C30_LoadingSettles ==
  (mStatus = "loading" /\ mounted = "yes") ~> (mStatus \in {"ready", "error"} \/ mounted = "gone")

====
